---------------------------- MODULE Spec2Model ----------------------------
(***************************************************************************)
(* A model of the cppp preprocessor's translation pipeline                 *)
(* (src/cppp/cparser.py): the source decoder, phase 1 (trigraphs and       *)
(* white-space truncation), phase 2 (line splicing), phase 3a (comment     *)
(* removal) and phase 3b (tokenization).                                   *)
(*                                                                         *)
(* A character is a one-character string.  A positioned character is the   *)
(* pair <<char, <<line, column>>>> the stages pass through their queues    *)
(* (the Python list [char, (line_num, char_num)]).  A token is a record    *)
(* [start, val, identifier_compatible], val being the sequence of the      *)
(* token's characters.                                                     *)
(*                                                                         *)
(* run_translation creates unbounded queues, so every stage runs to its    *)
(* end before the next one starts: the actions RunPhase1 .. run one stage  *)
(* each, in that order, on the whole content of the stage's input queue.   *)
(*                                                                         *)
(* The pipeline specifications (SpecPipeline, SpecPipelineLong) run the     *)
(* same stages one queue element at a time, as tasks of the event loop     *)
(* that run_translation gathers, in every interleaving.                    *)
(***************************************************************************)
EXTENDS Integers, Sequences, FiniteSets

VARIABLES
    text,               \* the input string handed to input_txt_from_string
    trigraphs_enabled,  \* run_translation's trigraphs_enabled argument
    pc,                 \* the stage that runs next
    ph1,                \* do_translation_phase_1's locals and its output queue
    ph2,                \* do_translation_phase_2's locals and its output queue
    ph3,                \* do_translation_phase_3_remove_comments' locals and queue
    tok,                \* do_translation_phase_3_tokenize's locals and queue
    phase,              \* run_translation's phase argument
    input_funct,        \* run_translation's input_funct argument
    input_iter,         \* what the generator input_func(input_src) has still to yield
    data_queues,        \* run_translation's data_queues, index 0..4
    tasks,              \* the state of each of run_translation's active_tasks
    ph4,                \* do_translation_phase_4's output
    out_text,           \* run_translation's out_text list
    put_log,            \* per queue, everything put on it so far
    get_log,            \* per queue, everything got from it so far
    lexer_lst,          \* directives_do_process' token list
    macros_dict,        \* directives_do_process' macro table
    lexer_lst_in,       \* the token list as directives_do_process was given it
    scan,               \* directives_do_process' position, its i and j, and the
                        \* _cond_queue of its last _do_perform_directive call
    decoder,            \* the locals of a running input_txt_from_string or
                        \* input_txt_from_file generator and what it yielded
    cppp_class,         \* the attributes of the class Cppp (cppp.py 23-27)
    instances,          \* the Cppp objects built so far and their own attributes
    cppp_call           \* the last call on the class Cppp or on one of its
                        \* objects: what was called, with what, and how it ended

\* The variables of the pipeline of tasks
pipeline_vars ==
    <<phase, input_funct, input_iter, data_queues, tasks, ph4, out_text,
      put_log, get_log>>

\* The variables of the directive engine
directive_vars == <<lexer_lst, macros_dict, lexer_lst_in, scan>>

\* The variables of the source decoder run on its own
decoder_vars == <<decoder>>

\* The variables of the class Cppp and its objects
cppp_vars == <<cppp_class, instances, cppp_call>>

vars ==
    <<text, trigraphs_enabled, pc, ph1, ph2, ph3, tok, pipeline_vars,
      directive_vars, decoder_vars, cppp_vars>>

---------------------------------------------------------------------------
(* Characters *)

NL == "\n"
SP == " "
TAB == "\t"
CR == "\r"
FF == "\f"
QUOTE == "\""
APOS == "'"
BSL == "\\"
SLASH == "/"
STAR == "*"
QM == "?"
\* U+FFFD, the replacement character of errors='replace'
FFFD == "<U+FFFD>"

\* str.isspace() on the characters the model uses
IsSpace(c) == c \in {SP, TAB, NL, CR, FF}

Last(s) == s[Len(s)]
Front(s) == SubSeq(s, 1, Len(s) - 1)

\* The characters of a sequence of positioned characters
RECURSIVE Chars(_)
Chars(q) == IF q = <<>> THEN <<>> ELSE <<q[1][1]>> \o Chars(Tail(q))

---------------------------------------------------------------------------
(* Source decoder: input_txt_from_string *)

\* text.replace('\r\n', '\n').replace('\r', '\n').replace('\f', '\n')
RECURSIVE corrected_text(_)
corrected_text(t) ==
    IF t = <<>> THEN <<>>
    ELSE IF Len(t) >= 2 /\ t[1] = CR /\ t[2] = NL
         THEN <<NL>> \o corrected_text(SubSeq(t, 3, Len(t)))
    ELSE IF t[1] = CR \/ t[1] = FF
         THEN <<NL>> \o corrected_text(Tail(t))
    ELSE <<t[1]>> \o corrected_text(Tail(t))

\* DecodeChar with line_add never set back to False
DecodeCharLineKept(d, char) ==
    IF char = FFFD
    THEN [d EXCEPT !._file_errs = @ + 1]
    ELSE LET line_num == IF d.line_add THEN d.line_num + 1 ELSE d.line_num
             char_position == IF d.line_add THEN 1 ELSE d.char_position + 1
         IN [d EXCEPT !.line_num = line_num,
                      !.char_position = char_position,
                      !.line_add = (d.line_add \/ char = NL),
                      !.out = Append(@, <<char, line_num, char_position>>)]

\* DecodeChar with the skipped character not counted
DecodeCharUncounted(d, char) ==
    IF char = FFFD
    THEN d
    ELSE LET line_num == IF d.line_add THEN d.line_num + 1 ELSE d.line_num
             char_position == IF d.line_add THEN 1 ELSE d.char_position + 1
         IN [d EXCEPT !.line_num = line_num,
                      !.char_position = char_position,
                      !.line_add = (char = NL),
                      !.out = Append(@, <<char, line_num, char_position>>)]

\* One iteration of the generator's for loop on the decoder state
\* d = [line_num, char_position, line_add, _file_errs, out].
DecodeChar(d, char) ==
    IF char = FFFD
    THEN [d EXCEPT !._file_errs = @ + 1]
    ELSE LET line_num == IF d.line_add THEN d.line_num + 1 ELSE d.line_num
             char_position == IF d.line_add THEN 1 ELSE d.char_position + 1
         IN [d EXCEPT !.line_num = line_num,
                      !.char_position = char_position,
                      !.line_add = (char = NL),
                      !.out = Append(@, <<char, line_num, char_position>>)]

RECURSIVE DecodeFrom(_, _)
DecodeFrom(d, t) ==
    IF t = <<>> THEN d ELSE DecodeFrom(DecodeChar(d, t[1]), Tail(t))

DecoderInit ==
    [line_num |-> 1, char_position |-> 1, line_add |-> FALSE,
     _file_errs |-> 0, out |-> <<>>]

\* The triples (char, line_num, char_position) the generator yields
input_txt_from_string(t) == DecodeFrom(DecoderInit, corrected_text(t)).out

---------------------------------------------------------------------------
(* Phase 1: do_translation_phase_1 *)

trigraph_keys == {"=", SLASH, APOS, "(", ")", "!", "<", ">", "-"}

trigraph_subs(c) ==
    CASE c = "=" -> "#"
      [] c = SLASH -> BSL
      [] c = APOS -> "^"
      [] c = "(" -> "["
      [] c = ")" -> "]"
      [] c = "!" -> "|"
      [] c = "<" -> "{"
      [] c = ">" -> "}"
      [] c = "-" -> "~"

Phase1Init ==
    [char_buf |-> <<>>, escape_char |-> FALSE, in_string |-> FALSE,
     in_comment_c_style |-> FALSE, in_comment_cpp_style |-> FALSE,
     out |-> <<>>]

\* LastIs with the length test off by one
LastIsLongBuffer(buf, c) == Len(buf) > 1 /\ Last(buf)[1] = c

\* char_buf[-1][0] == c, guarded by len(char_buf) > 0
LastIs(buf, c) == Len(buf) > 0 /\ Last(buf)[1] = c

\* The if/elif chain of the loop body (lines 134-181): the state after it,
\* the character to push (white space is standardized to ' ') and whether
\* the iteration ends with `continue`.
Phase1Scan(s, char) ==
    IF s.in_string THEN
        [s |-> IF ~s.escape_char /\ char = QUOTE
                 THEN [s EXCEPT !.in_string = FALSE]
               ELSE IF ~s.escape_char /\ char = BSL
                 THEN [s EXCEPT !.escape_char = TRUE]
               ELSE [s EXCEPT !.escape_char = FALSE],
         char |-> char, skip |-> FALSE]
    ELSE IF s.in_comment_cpp_style THEN
        [s |-> IF ~s.escape_char /\ char = NL
                 THEN [s EXCEPT !.in_comment_cpp_style = FALSE]
               ELSE IF ~s.escape_char /\ char = BSL
                 THEN [s EXCEPT !.escape_char = TRUE]
               ELSE [s EXCEPT !.escape_char = FALSE],
         char |-> char, skip |-> FALSE]
    ELSE IF s.in_comment_c_style THEN
        [s |-> IF char = SLASH /\ LastIs(s.char_buf, STAR)
                 THEN [s EXCEPT !.in_comment_c_style = FALSE]
               ELSE s,
         char |-> char, skip |-> FALSE]
    ELSE IF char = QUOTE THEN
        [s |-> [s EXCEPT !.in_string = TRUE], char |-> char, skip |-> FALSE]
    ELSE IF char = SLASH THEN
        [s |-> IF LastIs(s.char_buf, SLASH)
                 THEN [s EXCEPT !.in_comment_cpp_style = TRUE]
               ELSE s,
         char |-> char, skip |-> FALSE]
    ELSE IF char = STAR THEN
        [s |-> IF LastIs(s.char_buf, SLASH)
                 THEN [s EXCEPT !.in_comment_c_style = TRUE]
               ELSE s,
         char |-> char, skip |-> FALSE]
    ELSE IF char = NL THEN
        [s |-> s, char |-> char, skip |-> LastIs(s.char_buf, NL)]
    ELSE IF IsSpace(char) THEN
        [s |-> s, char |-> SP, skip |-> LastIs(s.char_buf, SP)]
    ELSE [s |-> s, char |-> char, skip |-> FALSE]

\* while len(char_buf) > 3: await out_queue.put(char_buf.pop(0))
RECURSIVE FlushOver3(_)
FlushOver3(s) ==
    IF Len(s.char_buf) > 3
    THEN FlushOver3([s EXCEPT !.out = Append(@, Head(s.char_buf)),
                              !.char_buf = Tail(@)])
    ELSE s

\* while len(char_buf) > 0: await out_queue.put(char_buf.pop(0))
FlushAll(s) == [s EXCEPT !.out = @ \o s.char_buf, !.char_buf = <<>>]

\* IsTrigraph with the buffer length test off by one
IsTrigraphShortBuffer(buf, char, trig) ==
    /\ trig
    /\ Len(buf) > 2
    /\ buf[Len(buf) - 1][1] = QM
    /\ buf[Len(buf)][1] = QM
    /\ char \in trigraph_keys

\* The trigraph test of lines 184-185
IsTrigraph(buf, char, trig) ==
    /\ trig
    /\ Len(buf) > 1
    /\ buf[Len(buf) - 1][1] = QM
    /\ buf[Len(buf)][1] = QM
    /\ char \in trigraph_keys

\* One iteration of the for loop of do_translation_phase_1 on the triple
\* item = (char, line_num, char_num).
Phase1Step(s, item, trig) ==
    LET r == Phase1Scan(s, item[1])
        buf == r.s.char_buf
    IN  IF r.skip THEN r.s
        ELSE IF IsTrigraph(buf, r.char, trig)
        THEN LET popped == Front(buf)
                 n == Len(popped)
             IN [r.s EXCEPT
                   !.char_buf = [popped EXCEPT ![n] = <<trigraph_subs(r.char), @[2]>>],
                   !.escape_char = IF r.char = SLASH THEN TRUE ELSE @]
        ELSE FlushOver3([r.s EXCEPT
                   !.char_buf = Append(@, <<r.char, <<item[2], item[3]>>>>)])

RECURSIVE Phase1Loop(_, _, _)
Phase1Loop(s, items, trig) ==
    IF items = <<>> THEN s
    ELSE Phase1Loop(Phase1Step(s, items[1], trig), Tail(items), trig)

\* The whole coroutine: its locals at its end, out being all it has put
\* on out_queue before the end-of-stream None.
do_translation_phase_1(src, trig) ==
    FlushAll(Phase1Loop(Phase1Init, input_txt_from_string(src), trig))

---------------------------------------------------------------------------
(* Phase 2: do_translation_phase_2 *)

Phase2Init == [escape_char |-> FALSE, out |-> <<>>]

\* One iteration of the while loop on the positioned character taken from
\* in_queue.
Phase2Step(s, char) ==
    IF char[1] = NL /\ s.escape_char
        THEN [s EXCEPT !.escape_char = FALSE]
    ELSE IF char[1] = BSL /\ ~s.escape_char
        THEN [s EXCEPT !.escape_char = TRUE]
    ELSE [s EXCEPT !.escape_char = FALSE, !.out = Append(@, char)]

RECURSIVE Phase2Loop(_, _)
Phase2Loop(s, q) ==
    IF q = <<>> THEN s ELSE Phase2Loop(Phase2Step(s, q[1]), Tail(q))

do_translation_phase_2(in_queue) == Phase2Loop(Phase2Init, in_queue)

---------------------------------------------------------------------------
(* Phase 3a: do_translation_phase_3_remove_comments *)

Phase3Init ==
    [char_buf |-> <<>>, escape_char |-> FALSE, asterisk_char |-> FALSE,
     in_string |-> FALSE, in_comment_c_style |-> FALSE,
     in_comment_cpp_style |-> FALSE, out |-> <<>>]

\* The if/elif chain of lines 260-302: the state after it, the character
\* to push (a comment opener becomes a space at the position of its first
\* character) and whether the iteration ends with `continue`.
Phase3Scan(s, char) ==
    IF s.in_string THEN
        [s |-> IF ~s.escape_char /\ char[1] = QUOTE
                 THEN [s EXCEPT !.in_string = FALSE]
               ELSE IF ~s.escape_char /\ char[1] = BSL
                 THEN [s EXCEPT !.escape_char = TRUE]
               ELSE [s EXCEPT !.escape_char = FALSE],
         char |-> char, skip |-> FALSE]
    ELSE IF s.in_comment_cpp_style THEN
        IF char[1] = NL
        THEN [s |-> [s EXCEPT !.in_comment_cpp_style = FALSE],
              char |-> char, skip |-> FALSE]
        ELSE [s |-> [s EXCEPT !.escape_char = FALSE],
              char |-> char, skip |-> TRUE]
    ELSE IF s.in_comment_c_style THEN
        [s |-> IF char[1] = SLASH /\ s.asterisk_char
                 THEN [s EXCEPT !.in_comment_c_style = FALSE]
               ELSE IF char[1] = STAR
                 THEN [s EXCEPT !.asterisk_char = TRUE]
               ELSE [s EXCEPT !.asterisk_char = FALSE],
         char |-> char, skip |-> TRUE]
    ELSE IF char[1] = QUOTE THEN
        [s |-> [s EXCEPT !.in_string = TRUE], char |-> char, skip |-> FALSE]
    ELSE IF char[1] = SLASH /\ LastIs(s.char_buf, SLASH) THEN
        [s |-> [s EXCEPT !.in_comment_cpp_style = TRUE,
                         !.char_buf = Front(@)],
         char |-> <<SP, Last(s.char_buf)[2]>>, skip |-> FALSE]
    ELSE IF char[1] = STAR /\ LastIs(s.char_buf, SLASH) THEN
        [s |-> [s EXCEPT !.in_comment_c_style = TRUE,
                         !.char_buf = Front(@)],
         char |-> <<SP, Last(s.char_buf)[2]>>, skip |-> FALSE]
    ELSE [s |-> s, char |-> char, skip |-> FALSE]

\* The white-space truncation of lines 304-320 on the state and character
\* the scan left: the buffer after it and whether the character is dropped.
Phase3Truncate(s, char) ==
    IF ~s.in_string /\ char[1] = NL THEN
        IF Len(s.char_buf) > 0
        THEN IF Last(s.char_buf)[1] = NL
               THEN [char_buf |-> s.char_buf, skip |-> TRUE]
             ELSE IF Last(s.char_buf)[1] = SP
               THEN [char_buf |-> Front(s.char_buf), skip |-> FALSE]
             ELSE [char_buf |-> s.char_buf, skip |-> FALSE]
        ELSE [char_buf |-> s.char_buf, skip |-> TRUE]
    ELSE IF ~s.in_string /\ char[1] = SP THEN
        IF Len(s.char_buf) > 0
        THEN [char_buf |-> s.char_buf,
              skip |-> Last(s.char_buf)[1] = SP \/ Last(s.char_buf)[1] = NL]
        ELSE [char_buf |-> s.char_buf, skip |-> TRUE]
    ELSE [char_buf |-> s.char_buf, skip |-> FALSE]

\* Phase3Step with the space before a newline overwritten by the newline
\* instead of popped
Phase3StepNewlineInPlace(s, char) ==
    LET r == Phase3Scan(s, char)
        buf == r.s.char_buf
    IN  IF r.skip THEN r.s
        ELSE IF ~r.s.in_string /\ r.char[1] = NL /\ LastIs(buf, SP)
        THEN [r.s EXCEPT !.char_buf = Append(Front(buf), <<NL, Last(buf)[2]>>)]
        ELSE LET t == Phase3Truncate(r.s, r.char)
             IN IF t.skip THEN r.s
                ELSE FlushOver3([r.s EXCEPT !.char_buf = Append(t.char_buf, r.char)])

\* Phase3Step with the space that stands for a comment not pushed
Phase3StepNoSpace(s, char) ==
    LET r == Phase3Scan(s, char)
    IN  IF r.skip \/ (r.char[1] = SP /\ char[1] # SP) THEN r.s
        ELSE LET t == Phase3Truncate(r.s, r.char)
             IN IF t.skip THEN r.s
                ELSE FlushOver3([r.s EXCEPT !.char_buf = Append(t.char_buf, r.char)])

\* One iteration of the while loop on the positioned character taken from
\* in_queue.
Phase3Step(s, char) ==
    LET r == Phase3Scan(s, char)
    IN  IF r.skip THEN r.s
        ELSE LET t == Phase3Truncate(r.s, r.char)
             IN IF t.skip THEN r.s
                ELSE FlushOver3([r.s EXCEPT !.char_buf = Append(t.char_buf, r.char)])

RECURSIVE Phase3Loop(_, _)
Phase3Loop(s, q) ==
    IF q = <<>> THEN s ELSE Phase3Loop(Phase3Step(s, q[1]), Tail(q))

do_translation_phase_3_remove_comments(in_queue) ==
    FlushAll(Phase3Loop(Phase3Init, in_queue))

---------------------------------------------------------------------------
(* Identifier test: directives.is_identifier_compatible *)

Letters ==
    {"a", "b", "c", "d", "e", "f", "g", "h", "i", "j", "k", "l", "m",
     "n", "o", "p", "q", "r", "s", "t", "u", "v", "w", "x", "y", "z",
     "A", "B", "C", "D", "E", "F", "G", "H", "I", "J", "K", "L", "M",
     "N", "O", "P", "Q", "R", "S", "T", "U", "V", "W", "X", "Y", "Z"}
Digits == {"0", "1", "2", "3", "4", "5", "6", "7", "8", "9"}

\* The identifier test with a digit allowed as the first character
is_identifier_compatible_any_first(name) ==
    /\ Len(name) > 0
    /\ \A i \in 1..Len(name) : name[i] \in Letters \cup Digits \cup {"_"}

\* re.match(r"^[A-Za-z_][A-Za-z0-9_]*$", name); `$` also matches before a
\* final newline.
is_identifier_compatible(name) ==
    LET body == IF Len(name) > 1 /\ Last(name) = NL THEN Front(name) ELSE name
    IN  /\ Len(body) > 0
        /\ body[1] \in Letters \cup {"_"}
        /\ \A i \in 2..Len(body) : body[i] \in Letters \cup Digits \cup {"_"}

---------------------------------------------------------------------------
(* Phase 3b: do_translation_phase_3_tokenize *)

symbols ==
    {"+", "-", STAR, SLASH, "%", "=", "<", ">", "!",
     "&", "|", "^", "~", ".", ":", ";", ",", "[", "]",
     "(", ")", "{", "}", QM, "#", NL, APOS, QUOTE, SP, BSL}

\* LexerToken(token_buf[0], token_buf[1], is_identifier_compatible(token_buf[1]))
LexerToken(token_buf) ==
    [start |-> token_buf[1], val |-> token_buf[2],
     identifier_compatible |-> is_identifier_compatible(token_buf[2])]

TokenizeInit ==
    [get_next_char |-> TRUE, in_string |-> FALSE, escape_char |-> FALSE,
     save_buf |-> FALSE, token_buf |-> <<>>, out |-> <<>>]

\* if save_buf: put the token, clear token_buf (lines 404-407)
TokenizeSave(s) ==
    IF s.save_buf
    THEN [s EXCEPT !.out = Append(@, LexerToken(s.token_buf)),
                   !.token_buf = <<>>, !.save_buf = FALSE]
    ELSE s

\* The loop body from line 368 on, for the positioned character char.
TokenizeBody(s, char) ==
    IF s.in_string THEN
        LET s1 == IF ~s.escape_char /\ char[1] = QUOTE
                    THEN [s EXCEPT !.in_string = FALSE, !.save_buf = TRUE]
                  ELSE IF ~s.escape_char /\ char[1] = BSL
                    THEN [s EXCEPT !.escape_char = TRUE]
                  ELSE [s EXCEPT !.escape_char = FALSE]
        IN [s1 EXCEPT !.token_buf[2] = Append(@, char[1])]
    ELSE IF char[1] \in symbols THEN
        IF Len(s.token_buf) > 0
        THEN TokenizeSave([s EXCEPT !.save_buf = TRUE, !.get_next_char = FALSE])
        ELSE TokenizeSave([s EXCEPT !.token_buf = <<char[2], <<char[1]>>>>,
                                    !.in_string = (char[1] = QUOTE),
                                    !.save_buf = IF char[1] = QUOTE THEN @ ELSE TRUE])
    ELSE IF Len(s.token_buf) = 0
        THEN [s EXCEPT !.token_buf = <<char[2], <<char[1]>>>>]
        ELSE [s EXCEPT !.token_buf[2] = Append(@, char[1])]

\* One character taken from in_queue: the loop body, and once more on the
\* same character when the body cleared get_next_char (lines 361-366).
TokenizeStep(s, char) ==
    LET r == TokenizeBody(s, char)
    IN  IF r.get_next_char THEN r
        ELSE TokenizeBody([r EXCEPT !.get_next_char = TRUE], char)

RECURSIVE TokenizeLoop(_, _)
TokenizeLoop(s, q) ==
    IF q = <<>> THEN s ELSE TokenizeLoop(TokenizeStep(s, q[1]), Tail(q))

\* The end of the tokenizer without the put of the last token
TokenizeEndNoPut(s) == s

\* if len(token_buf) > 0: put the last token (lines 409-410)
TokenizeEnd(s) ==
    IF Len(s.token_buf) > 0
    THEN [s EXCEPT !.out = Append(@, LexerToken(s.token_buf))]
    ELSE s

do_translation_phase_3_tokenize(in_queue) ==
    TokenizeEnd(TokenizeLoop(TokenizeInit, in_queue))

\* cat_output_text's "".join(out_text) on a queue of positioned characters
\* or of tokens, as the sequence of the characters of the joined text
RECURSIVE JoinTokens(_)
JoinTokens(q) == IF q = <<>> THEN <<>> ELSE q[1].val \o JoinTokens(Tail(q))

---------------------------------------------------------------------------
(* The run: run_translation with phase = 3, one stage per action *)

\* Longest input text of Spec
MaxLen == 4
\* Longest input text of SpecComments
MaxCommentLen == 8
\* Longest input text of SpecEscapes
MaxEscapeLen == 6
\* Longest input text of SpecTrigraphs
MaxTrigraphLen == 5
\* Longest input text of SpecCharLiterals
MaxCharLiteralLen == 5
\* Longest input text of SpecIdentifiers
MaxIdentifierLen == 4
\* Longest text of SpecCommentQuotes
MaxCommentQuoteLen == 6
\* Longest text of SpecBackslashTrigraphs
MaxBackslashLen == 6
\* Longest text of SpecWhitespace
MaxWhitespaceLen == 6

Alphabet == {"a", SP, NL, SLASH, STAR, QUOTE, BSL, APOS}
CommentAlphabet == {SLASH, STAR, SP, "a"}
EscapeAlphabet == {QUOTE, BSL, SLASH, "a"}
CharLiteralAlphabet == {APOS, QUOTE, SLASH, STAR, SP, "a"}
IdentifierAlphabet == {"a", "_", "0", "+", SP, NL, QUOTE}
CommentQuoteAlphabet == {SLASH, STAR, QUOTE, NL}
BackslashAlphabet == {QM, SLASH, BSL, QUOTE, TAB, NL}
WhitespaceAlphabet == {SP, NL, QUOTE, BSL, "a"}

\* All strings over alpha of length at most n
Texts(alpha, n) == UNION {[1..k -> alpha] : k \in 0..n}

\* Texts of question marks, one trigraph key, quotes and spaces
TrigraphTexts ==
    UNION {Texts({QM, k, QUOTE, SP}, MaxTrigraphLen) : k \in trigraph_keys}

NotRun == [out |-> <<>>]

\* The end-of-stream sentinel None; like None, the empty tuple is false
\* in a condition and is no queue element of the stages.
None == <<>>

\* The five queues of line 462, nothing put on them
EmptyQueues == [q \in 0..4 |-> <<>>]

\* The pipeline of tasks is not looked at: the stages run one after the
\* other, phase = 3.
PipelineIdle ==
    /\ phase = 3
    /\ input_funct = "input_txt_from_string"
    /\ input_iter = <<>>
    /\ data_queues = EmptyQueues
    /\ tasks = [i \in 0..5 |-> "none"]
    /\ ph4 = NotRun
    /\ out_text = <<>>
    /\ put_log = EmptyQueues
    /\ get_log = EmptyQueues

\* No macro: an empty dict
NoMacros == [n \in {} |-> n]

\* directives_do_process is not called
DirectivesIdle ==
    /\ lexer_lst = <<>>
    /\ lexer_lst_in = <<>>
    /\ macros_dict = NoMacros
    /\ scan = [pc |-> "not_called", i |-> 0, j |-> 0,
               cond_queue |-> <<>>]

\* No generator of the source decoder is looked at on its own
DecoderIdle == decoder = [pc |-> "not_called"]

\* No Cppp object is built
CpppIdle ==
    /\ cppp_class = [pc |-> "not_used"]
    /\ instances = <<>>
    /\ cppp_call = [op |-> "none"]

\* run_translation is entered with the text and the flag; no stage has run.
Start(texts, flags) ==
    /\ text \in texts
    /\ trigraphs_enabled \in flags
    /\ pc = "phase_1"
    /\ ph1 = NotRun
    /\ ph2 = NotRun
    /\ ph3 = NotRun
    /\ tok = NotRun
    /\ PipelineIdle
    /\ DecoderIdle
    /\ CpppIdle
    /\ DirectivesIdle

Init == Start(Texts(Alphabet, MaxLen), {FALSE})

InitComments == Start(Texts(CommentAlphabet, MaxCommentLen), {FALSE})

InitEscapes == Start(Texts(EscapeAlphabet, MaxEscapeLen), {FALSE})

InitTrigraphs == Start(TrigraphTexts, BOOLEAN)

InitCharLiterals == Start(Texts(CharLiteralAlphabet, MaxCharLiteralLen), {FALSE})

InitIdentifiers == Start(Texts(IdentifierAlphabet, MaxIdentifierLen), {FALSE})

\* Texts of comment openers and closers, quotes and newlines
InitCommentQuotes ==
    Start(Texts(CommentQuoteAlphabet, MaxCommentQuoteLen), {FALSE})

\* Texts of the trigraph ??/, backslashes, quotes, line comments and white
\* space, trigraphs enabled
InitBackslashTrigraphs ==
    Start(Texts(BackslashAlphabet, MaxBackslashLen), {TRUE})

\* Texts of white space, string literals and escapes
InitWhitespace == Start(Texts(WhitespaceAlphabet, MaxWhitespaceLen), {FALSE})

RunPhase1 ==
    /\ pc = "phase_1"
    /\ ph1' = do_translation_phase_1(text, trigraphs_enabled)
    /\ pc' = "phase_2"
    /\ UNCHANGED <<text, trigraphs_enabled, ph2, ph3, tok, pipeline_vars, directive_vars,
                   decoder_vars, cppp_vars>>

RunPhase2 ==
    /\ pc = "phase_2"
    /\ ph2' = do_translation_phase_2(ph1.out)
    /\ pc' = "phase_3_remove_comments"
    /\ UNCHANGED <<text, trigraphs_enabled, ph1, ph3, tok, pipeline_vars, directive_vars,
                   decoder_vars, cppp_vars>>

RunPhase3RemoveComments ==
    /\ pc = "phase_3_remove_comments"
    /\ ph3' = do_translation_phase_3_remove_comments(ph2.out)
    /\ pc' = "phase_3_tokenize"
    /\ UNCHANGED <<text, trigraphs_enabled, ph1, ph2, tok, pipeline_vars, directive_vars,
                   decoder_vars, cppp_vars>>

RunPhase3Tokenize ==
    /\ pc = "phase_3_tokenize"
    /\ tok' = do_translation_phase_3_tokenize(ph3.out)
    /\ pc' = "done"
    /\ UNCHANGED <<text, trigraphs_enabled, ph1, ph2, ph3, pipeline_vars, directive_vars,
                   decoder_vars, cppp_vars>>

Next ==
    \/ RunPhase1
    \/ RunPhase2
    \/ RunPhase3RemoveComments
    \/ RunPhase3Tokenize

Spec == Init /\ [][Next]_vars

SpecComments == InitComments /\ [][Next]_vars

SpecEscapes == InitEscapes /\ [][Next]_vars

SpecTrigraphs == InitTrigraphs /\ [][Next]_vars

SpecCharLiterals == InitCharLiterals /\ [][Next]_vars

SpecIdentifiers == InitIdentifiers /\ [][Next]_vars

SpecCommentQuotes == InitCommentQuotes /\ [][Next]_vars

SpecBackslashTrigraphs == InitBackslashTrigraphs /\ [][Next]_vars

SpecWhitespace == InitWhitespace /\ [][Next]_vars

---------------------------------------------------------------------------
(* The pipeline of tasks: run_translation, one queue element per step *)

\* Longest input text of SpecPipeline
MaxPipeLen == 3
\* Longest run of one character among the input texts of SpecPipelineLong
MaxRunLen == 6
\* Longest input text of SpecPipelinePhases
MaxPhaseTextLen == 2
\* The greatest phase argument of SpecPipelinePhases; the least is
\* 1 - MaxPhase
MaxPhase == 7

PipeAlphabet == {"a", SLASH, QUOTE}

\* Runs of the character a
RunTexts == {[i \in 1..k |-> "a"] : k \in 0..MaxRunLen}

\* A macro definition and a use of the macro; a directive alone on its line
DirectiveTexts ==
    {<<"#", "d", "e", "f", "i", "n", "e", SP, "a", NL, "a">>,
     <<"#", "e", "l", "s", "e">>}

\* The value of phase after lines 456-460, the number of entries of
\* translation_tasks that run: a phase outside 1..4 is left as it is, a
\* phase from 3 on gets one more, phase 3 being two tasks.
Stages ==
    IF phase < 1 \/ phase > 4 THEN phase
    ELSE IF phase >= 3 THEN phase + 1
    ELSE phase

\* translation_tasks[i] in the loop of lines 467-468 or data_queues[phase - 1]
\* in line 470 raises IndexError: both lists have 5 entries.
ConstructionRaises == Stages > 5 \/ Stages - 1 < -5

\* The index in 0..4 of data_queues[phase - 1] (line 470), a negative index
\* counting from the end of the list
CatQueue == IF Stages - 1 >= 0 THEN Stages - 1 ELSE Stages - 1 + 5

\* The test with the double quote taken for the end of the stream
NotCharOrQuote(m) == Len(m) = 0 \/ m[1] = QUOTE

\* `not char` on a positioned character or None
NotChar(m) == Len(m) = 0

\* `not tok` on a LexerToken or None: LexerToken.__len__ is len(val)
NotToken(m) == m = None \/ Len(m.val) = 0

\* The end of a stage without the put of None
EndOfStreamNoSentinel(rest) == rest

\* What a stage puts at its end: the rest of its output, then None
EndOfStream(rest) == Append(rest, None)

\* What a stage's step added to its output
NewOutput(before, after) == SubSeq(after.out, Len(before.out) + 1, Len(after.out))

\* Task i takes the head of its input queue and puts the elements of new,
\* in order, on its output queue; no put waits, a queue of line 462 having
\* no maxsize.
Transfer(i, new) ==
    /\ data_queues' = [data_queues EXCEPT ![i - 1] = Tail(@), ![i] = @ \o new]
    /\ get_log' = [get_log EXCEPT ![i - 1] = Append(@, Head(data_queues[i - 1]))]
    /\ put_log' = [put_log EXCEPT ![i] = @ \o new]

\* Task i can take an element: it runs and in_queue.get() does not wait
CanGet(i) == tasks[i] = "running" /\ data_queues[i - 1] # <<>>

\* run_translation has built its queues and tasks and awaits their gather
\* (lines 462-472), every task at its first statement; or building them
\* has raised IndexError, and only the task of phase 1, created before
\* (line 464), is there.
StartPipeline(texts, phases) ==
    /\ phase \in phases
    /\ trigraphs_enabled = FALSE
    /\ \/ input_funct = "input_txt_from_string" /\ text \in texts
       \/ input_funct = "input_txt_from_file" /\ text = <<>>
    /\ input_iter = input_txt_from_string(text)
    /\ pc = IF ConstructionRaises THEN "raised" ELSE "gather"
    /\ data_queues = EmptyQueues
    /\ put_log = EmptyQueues
    /\ get_log = EmptyQueues
    /\ tasks = [i \in 0..5 |->
                  IF i = 0 THEN "running"
                  ELSE IF ConstructionRaises THEN "none"
                  ELSE IF i < Stages \/ i = 5 THEN "running"
                  ELSE "none"]
    /\ ph1 = Phase1Init
    /\ ph2 = Phase2Init
    /\ ph3 = Phase3Init
    /\ tok = TokenizeInit
    /\ ph4 = NotRun
    /\ out_text = <<>>
    /\ DirectivesIdle
    /\ DecoderIdle
    /\ CpppIdle

InitPipeline == StartPipeline(Texts(PipeAlphabet, MaxPipeLen), 1..4)

InitPipelineLong == StartPipeline(RunTexts \cup DirectiveTexts, 1..4)

\* Every value of the phase argument from 1 - MaxPhase to MaxPhase
InitPipelinePhases ==
    StartPipeline(Texts(PipeAlphabet, MaxPhaseTextLen),
                  (1 - MaxPhase)..MaxPhase)


\* do_translation_phase_1, one iteration of its for loop: the generator
\* yields, the stage puts what leaves its buffer.
Phase1Iterate ==
    /\ tasks[0] = "running"
    /\ input_funct = "input_txt_from_string"
    /\ input_iter # <<>>
    /\ LET s == Phase1Step(ph1, Head(input_iter), trigraphs_enabled)
       IN  /\ ph1' = s
           /\ data_queues' = [data_queues EXCEPT ![0] = @ \o NewOutput(ph1, s)]
           /\ put_log' = [put_log EXCEPT ![0] = @ \o NewOutput(ph1, s)]
    /\ input_iter' = Tail(input_iter)
    /\ UNCHANGED <<text, trigraphs_enabled, pc, ph2, ph3, tok, phase,
                   input_funct, tasks, ph4, out_text, get_log,
                   directive_vars,
                   decoder_vars, cppp_vars>>

\* do_translation_phase_1 after its for loop (lines 199-202): the buffer is
\* put, then None.
Phase1Finish ==
    /\ tasks[0] = "running"
    /\ input_funct = "input_txt_from_string"
    /\ input_iter = <<>>
    /\ LET s == FlushAll(ph1)
           new == EndOfStream(NewOutput(ph1, s))
       IN  /\ ph1' = s
           /\ data_queues' = [data_queues EXCEPT ![0] = @ \o new]
           /\ put_log' = [put_log EXCEPT ![0] = @ \o new]
    /\ tasks' = [tasks EXCEPT ![0] = "done"]
    /\ UNCHANGED <<text, trigraphs_enabled, pc, ph2, ph3, tok, phase,
                   input_funct, input_iter, ph4, out_text, get_log,
                   directive_vars,
                   decoder_vars, cppp_vars>>

\* do_translation_phase_1 on a file that does not exist: open() raises
\* FileNotFoundError in input_txt_from_file (line 29), which re-raises it
\* (line 58); the task ends with the exception, nothing put.
Phase1Raise ==
    /\ tasks[0] = "running"
    /\ input_funct = "input_txt_from_file"
    /\ tasks' = [tasks EXCEPT ![0] = "raised"]
    /\ UNCHANGED <<text, trigraphs_enabled, pc, ph1, ph2, ph3, tok, phase,
                   input_funct, input_iter, data_queues, ph4, out_text,
                   put_log, get_log,
                   directive_vars,
                   decoder_vars, cppp_vars>>

\* do_translation_phase_2, one iteration of its while loop
Phase2Get ==
    /\ CanGet(1)
    /\ LET m == Head(data_queues[0])
       IN  IF NotChar(m)
           THEN /\ Transfer(1, EndOfStream(<<>>))
                /\ tasks' = [tasks EXCEPT ![1] = "done"]
                /\ ph2' = ph2
           ELSE /\ ph2' = Phase2Step(ph2, m)
                /\ Transfer(1, NewOutput(ph2, Phase2Step(ph2, m)))
                /\ tasks' = tasks
    /\ UNCHANGED <<text, trigraphs_enabled, pc, ph1, ph3, tok, phase,
                   input_funct, input_iter, ph4, out_text,
                   directive_vars,
                   decoder_vars, cppp_vars>>

\* do_translation_phase_3_remove_comments, one iteration of its while loop
Phase3RemoveCommentsGet ==
    /\ CanGet(2)
    /\ LET m == Head(data_queues[1])
       IN  IF NotChar(m)
           THEN /\ ph3' = FlushAll(ph3)
                /\ Transfer(2, EndOfStream(NewOutput(ph3, FlushAll(ph3))))
                /\ tasks' = [tasks EXCEPT ![2] = "done"]
           ELSE /\ ph3' = Phase3Step(ph3, m)
                /\ Transfer(2, NewOutput(ph3, Phase3Step(ph3, m)))
                /\ tasks' = tasks
    /\ UNCHANGED <<text, trigraphs_enabled, pc, ph1, ph2, tok, phase,
                   input_funct, input_iter, ph4, out_text,
                   directive_vars,
                   decoder_vars, cppp_vars>>

\* do_translation_phase_3_tokenize: one character got, and the iterations
\* of its while loop on that character
Phase3TokenizeGet ==
    /\ CanGet(3)
    /\ LET m == Head(data_queues[2])
       IN  IF NotChar(m)
           THEN /\ tok' = TokenizeEnd(tok)
                /\ Transfer(3, EndOfStream(NewOutput(tok, TokenizeEnd(tok))))
                /\ tasks' = [tasks EXCEPT ![3] = "done"]
           ELSE /\ tok' = TokenizeStep(tok, m)
                /\ Transfer(3, NewOutput(tok, TokenizeStep(tok, m)))
                /\ tasks' = tasks
    /\ UNCHANGED <<text, trigraphs_enabled, pc, ph1, ph2, ph3, phase,
                   input_funct, input_iter, ph4, out_text,
                   directive_vars,
                   decoder_vars, cppp_vars>>

\* do_translation_phase_4, one iteration of its while loop: the token is
\* put as it was got.
Phase4Get ==
    /\ CanGet(4)
    /\ LET m == Head(data_queues[3])
       IN  IF NotToken(m)
           THEN /\ Transfer(4, EndOfStream(<<>>))
                /\ tasks' = [tasks EXCEPT ![4] = "done"]
                /\ ph4' = ph4
           ELSE /\ ph4' = [out |-> Append(ph4.out, m)]
                /\ Transfer(4, <<m>>)
                /\ tasks' = tasks
    /\ UNCHANGED <<text, trigraphs_enabled, pc, ph1, ph2, ph3, tok, phase,
                   input_funct, input_iter, out_text,
                   directive_vars,
                   decoder_vars, cppp_vars>>

\* cat_output_text, one iteration of its while loop, on the queue of the
\* last stage: queues 3 and 4 hold LexerTokens, the others characters.
CatOutputTextGet ==
    /\ tasks[5] = "running"
    /\ data_queues[CatQueue] # <<>>
    /\ LET q == CatQueue
           out_m == Head(data_queues[q])
           isLexerToken == q >= 3
       IN  /\ data_queues' = [data_queues EXCEPT ![q] = Tail(@)]
           /\ get_log' = [get_log EXCEPT ![q] = Append(@, out_m)]
           /\ IF (IF isLexerToken THEN NotToken(out_m) ELSE NotChar(out_m))
              THEN /\ tasks' = [tasks EXCEPT ![5] = "done"]
                   /\ out_text' = out_text
              ELSE /\ tasks' = tasks
                   /\ out_text' = Append(out_text,
                          IF isLexerToken THEN out_m.val ELSE <<out_m[1]>>)
    /\ UNCHANGED <<text, trigraphs_enabled, pc, ph1, ph2, ph3, tok, phase,
                   input_funct, input_iter, ph4, put_log,
                   directive_vars,
                   decoder_vars, cppp_vars>>

\* asyncio.gather (line 472) when every task has returned: run_translation
\* returns the joined out_text.
GatherReturn ==
    /\ pc = "gather"
    /\ \A i \in 0..5 : tasks[i] \in {"done", "none"}
    /\ pc' = "returned"
    /\ UNCHANGED <<text, trigraphs_enabled, ph1, ph2, ph3, tok, pipeline_vars, directive_vars,
                   decoder_vars, cppp_vars>>

\* asyncio.gather when a task has raised: the exception goes to
\* run_translation at once and out of it; gather cancels no other task.
GatherRaise ==
    /\ pc = "gather"
    /\ \E i \in 0..5 : tasks[i] = "raised"
    /\ pc' = "raised"
    /\ UNCHANGED <<text, trigraphs_enabled, ph1, ph2, ph3, tok, pipeline_vars, directive_vars,
                   decoder_vars, cppp_vars>>

NextPipeline ==
    \/ Phase1Iterate
    \/ Phase1Finish
    \/ Phase1Raise
    \/ Phase2Get
    \/ Phase3RemoveCommentsGet
    \/ Phase3TokenizeGet
    \/ Phase4Get
    \/ CatOutputTextGet
    \/ GatherReturn
    \/ GatherRaise

\* The event loop runs a task that is ready: weak fairness of the step
SpecPipeline == InitPipeline /\ [][NextPipeline]_vars /\ WF_vars(NextPipeline)

SpecPipelineLong ==
    InitPipelineLong /\ [][NextPipeline]_vars /\ WF_vars(NextPipeline)

SpecPipelinePhases ==
    InitPipelinePhases /\ [][NextPipeline]_vars /\ WF_vars(NextPipeline)

---------------------------------------------------------------------------
(* The directive engine: src/cppp/directives.py *)

\* lexer_lst[k], Python's index from 0
Tk(lst, k) == lst[k + 1]

\* del lexer_lst[a:b]
DelSlice(lst, a, b) ==
    LET hi == IF b > Len(lst) THEN Len(lst) ELSE b
    IN  IF a >= hi THEN lst
        ELSE SubSeq(lst, 1, a) \o SubSeq(lst, hi + 1, Len(lst))

\* LexerToken.__eq__ with a str: the token's val is the string
TkIs(lst, k, c) == Tk(lst, k).val = <<c>>

\* while j < limit and lexer_lst[i + j] == ' ': j += 1
RECURSIVE SkipSpaces(_, _, _, _)
SkipSpaces(lst, i, j, limit) ==
    IF j < limit /\ TkIs(lst, i + j, SP)
    THEN SkipSpaces(lst, i, j + 1, limit)
    ELSE j

\* The keys of _cpp_directive_handlers
cpp_directive_handlers ==
    {<<"d", "e", "f", "i", "n", "e">>, <<"u", "n", "d", "e", "f">>,
     <<"i", "n", "c", "l", "u", "d", "e">>, <<"e", "r", "r", "o", "r">>,
     <<"w", "a", "r", "n", "i", "n", "g">>, <<"l", "i", "n", "e">>,
     <<"p", "r", "a", "g", "m", "a">>}

\* The keys of _cpp_directive_handlers_conditionals
cpp_directive_handlers_conditionals ==
    {<<"i", "f">>, <<"e", "l", "i", "f">>, <<"e", "l", "s", "e">>,
     <<"e", "n", "d", "i", "f">>, <<"i", "f", "d", "e", "f">>,
     <<"i", "f", "n", "d", "e", "f">>}

\* _cpp_directive_get_size: <<directive_tokens, directive_non_space_tokens>>
RECURSIVE GetSizeFrom(_, _, _, _)
GetSizeFrom(lst, i, directive_tokens, directive_non_space_tokens) ==
    IF i + directive_tokens < Len(lst)
    THEN IF TkIs(lst, i + directive_tokens, NL)
         THEN <<directive_tokens, directive_non_space_tokens>>
         ELSE GetSizeFrom(lst, i, directive_tokens + 1,
                  IF ~TkIs(lst, i + directive_tokens, SP)
                  THEN directive_non_space_tokens + 1
                  ELSE directive_non_space_tokens)
    ELSE <<directive_tokens, directive_non_space_tokens>>

cpp_directive_get_size(lst, i) == GetSizeFrom(lst, i, 1, 0)

\* _get_define_params, the while loop of lines 103-104
RECURSIVE VariadicEndOffset(_, _, _, _)
VariadicEndOffset(lst, i_start, i_end, end_offset) ==
    IF (i_end - end_offset) > i_start /\ TkIs(lst, i_end - end_offset, SP)
    THEN VariadicEndOffset(lst, i_start, i_end, end_offset + 1)
    ELSE end_offset

\* _get_define_params, the while loop of lines 120-136: the parameters, or
\* ok = FALSE for `return False, None`
RECURSIVE FindParams(_, _, _, _, _, _)
FindParams(lst, pos, last, macro_params, valid_param, valid_delimiter) ==
    IF pos <= last THEN
        IF valid_delimiter /\ ~valid_param /\ Tk(lst, pos).identifier_compatible
            THEN FindParams(lst, pos + 1, last, Append(macro_params, Tk(lst, pos)),
                            TRUE, FALSE)
        ELSE IF valid_param /\ ~valid_delimiter /\ TkIs(lst, pos, ",")
            THEN FindParams(lst, pos + 1, last, macro_params, FALSE, TRUE)
        ELSE IF ~TkIs(lst, pos, SP)
            THEN [ok |-> FALSE, macro_params |-> <<>>]
        ELSE FindParams(lst, pos + 1, last, macro_params, valid_param,
                        valid_delimiter)
    ELSE IF valid_delimiter /\ ~valid_param
        THEN [ok |-> FALSE, macro_params |-> <<>>]
    ELSE [ok |-> TRUE, macro_params |-> macro_params]

\* _get_define_params: [ok, variadic_macro, macro_params]
get_define_params(lst, i_start, i_end) ==
    LET dots == /\ i_end - i_start >= 2
                /\ TkIs(lst, i_end, ".")
                /\ TkIs(lst, i_end - 1, ".")
                /\ TkIs(lst, i_end - 2, ".")
        off == VariadicEndOffset(lst, i_start, i_end, 3)
        valid == (i_end - off) <= i_start \/ TkIs(lst, i_end - off, ",")
        end_offset == IF dots THEN off + 1 ELSE 0
        found == FindParams(lst, i_start, i_end - end_offset, <<>>, FALSE, TRUE)
    IN  IF dots /\ ~valid
        THEN [ok |-> FALSE, variadic_macro |-> FALSE, macro_params |-> <<>>]
        ELSE [ok |-> found.ok, variadic_macro |-> dots,
              macro_params |-> found.macro_params]


\* What a directive handler returns: the macro table, the returned offset,
\* or the exception it raises
Handled(macros, ret) == [macros_dict |-> macros, ret |-> ret, raised |-> "no"]
HandlerRaises(macros, exc) == [macros_dict |-> macros, ret |-> 0, raised |-> exc]

\* _cpp_directive_handle_define from line 185 on, j being past the macro
\* name or the parameter list: a token that is no space ends the handler;
\* else CMacro is called with five arguments (line 196), and
\* CMacro.__init__(self, name, value, source) raises TypeError.
DefineBody(lst, i, macros, token_total_len, j) ==
    IF j < token_total_len /\ ~TkIs(lst, i + j, SP)
    THEN Handled(macros, 0)
    ELSE HandlerRaises(macros, "TypeError")

\* The while/else of lines 167-173: the j of the first ')' from j on, or
\* token_total_len when there is none
RECURSIVE FindCloseParen(_, _, _, _)
FindCloseParen(lst, i, j, token_total_len) ==
    IF j < token_total_len
    THEN IF TkIs(lst, i + j, ")") THEN j
         ELSE FindCloseParen(lst, i, j + 1, token_total_len)
    ELSE token_total_len

\* _get_define_params is called with start and j - 1, the offsets from the
\* directive, not with list indexes (line 177)
cpp_directive_handle_define(lst, i, macros, token_len, token_total_len) ==
    IF token_len < 2 THEN Handled(macros, 0)
    ELSE LET jName == SkipSpaces(lst, i, 1, token_total_len)
             j == jName + 1
             start == j + 1
             jClose == FindCloseParen(lst, i, start, token_total_len)
         IN  IF token_len > 3 /\ j < token_total_len /\ TkIs(lst, i + j, "(")
             THEN IF jClose >= token_total_len THEN Handled(macros, 0)
                  ELSE IF ~get_define_params(lst, start, jClose - 1).ok
                      THEN Handled(macros, 0)
                  ELSE DefineBody(lst, i, macros, token_total_len, jClose + 1)
             ELSE DefineBody(lst, i, macros, token_total_len, j)

\* while (i + j) < token_total_len and lexer_lst[i + j] == ' ' (line 214)
RECURSIVE UndefSkipSpaces(_, _, _, _)
UndefSkipSpaces(lst, i, j, token_total_len) ==
    IF (i + j) < token_total_len /\ TkIs(lst, i + j, SP)
    THEN UndefSkipSpaces(lst, i, j + 1, token_total_len)
    ELSE j

cpp_directive_handle_undef(lst, i, macros, token_len, token_total_len) ==
    IF token_len # 2 THEN Handled(macros, 0)
    ELSE LET j == UndefSkipSpaces(lst, i, 1, token_total_len)
             name == Tk(lst, i + j).val
         IN  IF name \in DOMAIN macros
             THEN Handled([n \in DOMAIN macros \ {name} |-> macros[n]], 0)
             ELSE Handled(macros, 0)

\* The handler of _cpp_directive_handlers for the directive named keyword;
\* every handler but define and undef returns 0 and does nothing else.
DirectiveHandler(keyword, lst, i, macros, token_len, token_total_len) ==
    IF keyword = <<"d", "e", "f", "i", "n", "e">>
        THEN cpp_directive_handle_define(lst, i, macros, token_len, token_total_len)
    ELSE IF keyword = <<"u", "n", "d", "e", "f">>
        THEN cpp_directive_handle_undef(lst, i, macros, token_len, token_total_len)
    ELSE Handled(macros, 0)

\* A handler of _cpp_directive_handlers_conditionals (lines 276-357): each
\* prints a line, returns 0 and leaves cond_queue as it got it.
cpp_directive_handle_conditional(cond_queue) ==
    [ret |-> 0, cond_queue |-> cond_queue]

\* do_perform_directive with the # of an unknown directive deleted, as the
\* # of an empty directive is
do_perform_directive_unknown_removed(lst, i, macros) ==
    LET cond_queue == <<>>
        size == cpp_directive_get_size(lst, i)
        tokens_total_len == size[1]
        tokens_len == size[2]
        j == SkipSpaces(lst, i, 1, tokens_total_len)
        keyword == Tk(lst, i + j).val
        cut == DelSlice(lst, i, i + j)
        h == DirectiveHandler(keyword, cut, i, macros, tokens_len,
                              tokens_total_len - j)
        c == cpp_directive_handle_conditional(cond_queue)
    IN  IF tokens_len = 0
        THEN [lexer_lst |-> DelSlice(lst, i, i + 1), macros_dict |-> macros,
              ret |-> 0, raised |-> "no", cond_queue |-> cond_queue]
        ELSE IF keyword \in cpp_directive_handlers
        THEN IF h.raised # "no"
             THEN [lexer_lst |-> cut, macros_dict |-> h.macros_dict,
                   ret |-> 0, raised |-> h.raised, cond_queue |-> cond_queue]
             ELSE [lexer_lst |-> DelSlice(cut, i, i + (tokens_total_len - j)),
                   macros_dict |-> h.macros_dict, ret |-> h.ret,
                   raised |-> "no", cond_queue |-> cond_queue]
        ELSE IF keyword \in cpp_directive_handlers_conditionals
        THEN [lexer_lst |-> DelSlice(cut, i, i + (tokens_total_len - j)),
              macros_dict |-> macros, ret |-> c.ret, raised |-> "no",
              cond_queue |-> c.cond_queue]
        ELSE [lexer_lst |-> DelSlice(lst, i, i + 1), macros_dict |-> macros, ret |-> 0,
              raised |-> "no", cond_queue |-> cond_queue]

\* _do_perform_directive: the token list and the macro table after it, the
\* offset it returns, or the exception that leaves it, and its local
\* _cond_queue (line 440) as the call leaves it
do_perform_directive(lst, i, macros) ==
    LET cond_queue == <<>>
        size == cpp_directive_get_size(lst, i)
        tokens_total_len == size[1]
        tokens_len == size[2]
        j == SkipSpaces(lst, i, 1, tokens_total_len)
        keyword == Tk(lst, i + j).val
        cut == DelSlice(lst, i, i + j)
        h == DirectiveHandler(keyword, cut, i, macros, tokens_len,
                              tokens_total_len - j)
        c == cpp_directive_handle_conditional(cond_queue)
    IN  IF tokens_len = 0
        THEN [lexer_lst |-> DelSlice(lst, i, i + 1), macros_dict |-> macros,
              ret |-> 0, raised |-> "no", cond_queue |-> cond_queue]
        ELSE IF keyword \in cpp_directive_handlers
        THEN IF h.raised # "no"
             THEN [lexer_lst |-> cut, macros_dict |-> h.macros_dict,
                   ret |-> 0, raised |-> h.raised, cond_queue |-> cond_queue]
             ELSE [lexer_lst |-> DelSlice(cut, i, i + (tokens_total_len - j)),
                   macros_dict |-> h.macros_dict, ret |-> h.ret,
                   raised |-> "no", cond_queue |-> cond_queue]
        ELSE IF keyword \in cpp_directive_handlers_conditionals
        THEN [lexer_lst |-> DelSlice(cut, i, i + (tokens_total_len - j)),
              macros_dict |-> macros, ret |-> c.ret, raised |-> "no",
              cond_queue |-> c.cond_queue]
        ELSE [lexer_lst |-> lst, macros_dict |-> macros, ret |-> 1,
              raised |-> "no", cond_queue |-> cond_queue]

\* _do_macro_sub reads sub_macro.function_like (line 394), an attribute
\* CMacro does not have: AttributeError.
do_macro_sub(lst, i, macros) ==
    [lexer_lst |-> lst, macros_dict |-> macros, ret |-> 1,
     raised |-> "AttributeError"]


\* Longest token list of SpecDirectives
MaxTokens == 4

\* The token texts of the lists of SpecDirectives
DirectiveTokenTexts ==
    {<<"#">>, <<SP>>, <<NL>>, <<"a">>, <<"e", "l", "s", "e">>,
     <<"d", "e", "f", "i", "n", "e">>}

\* The tokens of the texts vals, as the tokenizer builds them
MakeTokens(vals) ==
    [k \in 1..Len(vals) |-> LexerToken(<<<<1, k>>, vals[k]>>)]

\* CMacro(name): the macro of a caller's macro table
CMacro(name) == [name |-> name, val |-> <<>>, source |-> "None"]

\* directives_do_process is called with a token list and a macro table;
\* no stage of the pipeline is looked at.
InitDirectives ==
    /\ \E vals \in Texts(DirectiveTokenTexts, MaxTokens) :
          lexer_lst = MakeTokens(vals)
    /\ lexer_lst_in = lexer_lst
    /\ macros_dict \in {NoMacros, [n \in {<<"a">>} |-> CMacro(n)]}
    /\ scan = [pc |-> "while", i |-> 0, j |-> 0,
               cond_queue |-> <<>>]
    /\ text = <<>>
    /\ trigraphs_enabled = FALSE
    /\ pc = "not_run"
    /\ ph1 = NotRun
    /\ ph2 = NotRun
    /\ ph3 = NotRun
    /\ tok = NotRun
    /\ PipelineIdle
    /\ DecoderIdle
    /\ CpppIdle

\* The inner while loop of lines 505-509 goes on: lexer_lst[i - j] is a
\* space and `continue` leaves j as it is.
PrevTokenIsSpace ==
    scan.i - scan.j >= 0 /\ TkIs(lexer_lst, scan.i - scan.j, SP)

\* if i == 0 or lexer_lst[i - j] == '\n' (line 511)
HashStartsLine ==
    IF scan.i = 0 THEN TRUE ELSE TkIs(lexer_lst, scan.i - scan.j, NL)

\* while i < len(lexer_lst) is false: directives_do_process returns
DirectivesReturn ==
    /\ scan.pc = "while"
    /\ ~(scan.i < Len(lexer_lst))
    /\ scan' = [scan EXCEPT !.pc = "returned"]
    /\ UNCHANGED <<lexer_lst, macros_dict>>
    /\ UNCHANGED <<text, trigraphs_enabled, pc, ph1, ph2, ph3, tok, pipeline_vars,
                   lexer_lst_in,
                   decoder_vars, cppp_vars>>

\* lexer_lst[i] == '#' (lines 500-503): j = 1, on to the inner while loop
DirectivesHash ==
    /\ scan.pc = "while"
    /\ scan.i < Len(lexer_lst)
    /\ TkIs(lexer_lst, scan.i, "#")
    /\ scan' = [scan EXCEPT !.pc = "prev_token", !.j = 1]
    /\ UNCHANGED <<lexer_lst, macros_dict>>
    /\ UNCHANGED <<text, trigraphs_enabled, pc, ph1, ph2, ph3, tok, pipeline_vars,
                   lexer_lst_in,
                   decoder_vars, cppp_vars>>

\* One iteration of the inner while loop on a space: `continue`, nothing
\* changes.
DirectivesPrevSpace ==
    /\ scan.pc = "prev_token"
    /\ PrevTokenIsSpace
    /\ UNCHANGED vars

\* The inner loop is left and the # is first in the list or follows a
\* newline (line 511): _do_perform_directive, i += directive_offset.
DirectivesPerform ==
    /\ scan.pc = "prev_token"
    /\ ~PrevTokenIsSpace
    /\ HashStartsLine
    /\ LET r == do_perform_directive(lexer_lst, scan.i, macros_dict)
       IN  /\ lexer_lst' = r.lexer_lst
           /\ macros_dict' = r.macros_dict
           /\ scan' = IF r.raised # "no"
                      THEN [scan EXCEPT !.pc = "raised",
                                        !.cond_queue = r.cond_queue]
                      ELSE [scan EXCEPT !.pc = "while", !.i = @ + r.ret,
                                        !.cond_queue = r.cond_queue]
    /\ UNCHANGED <<text, trigraphs_enabled, pc, ph1, ph2, ph3, tok, pipeline_vars,
                   lexer_lst_in,
                   decoder_vars, cppp_vars>>

\* The inner loop is left and the # follows another token: the if of
\* line 511 is false, and the outer loop goes round with the same i.
DirectivesNotFirst ==
    /\ scan.pc = "prev_token"
    /\ ~PrevTokenIsSpace
    /\ ~HashStartsLine
    /\ scan' = [scan EXCEPT !.pc = "while"]
    /\ UNCHANGED <<lexer_lst, macros_dict>>
    /\ UNCHANGED <<text, trigraphs_enabled, pc, ph1, ph2, ph3, tok, pipeline_vars,
                   lexer_lst_in,
                   decoder_vars, cppp_vars>>

\* An identifier that is a key of macros_dict (lines 516-519):
\* _do_macro_sub, i += macro_offset.
DirectivesMacroSub ==
    /\ scan.pc = "while"
    /\ scan.i < Len(lexer_lst)
    /\ ~TkIs(lexer_lst, scan.i, "#")
    /\ Tk(lexer_lst, scan.i).identifier_compatible
    /\ Tk(lexer_lst, scan.i).val \in DOMAIN macros_dict
    /\ LET r == do_macro_sub(lexer_lst, scan.i, macros_dict)
       IN  /\ lexer_lst' = r.lexer_lst
           /\ macros_dict' = r.macros_dict
           /\ scan' = IF r.raised # "no"
                      THEN [scan EXCEPT !.pc = "raised"]
                      ELSE [scan EXCEPT !.i = @ + r.ret]
    /\ UNCHANGED <<text, trigraphs_enabled, pc, ph1, ph2, ph3, tok, pipeline_vars,
                   lexer_lst_in,
                   decoder_vars, cppp_vars>>

\* Any other token (lines 521-522): i += 1
DirectivesAdvance ==
    /\ scan.pc = "while"
    /\ scan.i < Len(lexer_lst)
    /\ ~TkIs(lexer_lst, scan.i, "#")
    /\ ~(/\ Tk(lexer_lst, scan.i).identifier_compatible
         /\ Tk(lexer_lst, scan.i).val \in DOMAIN macros_dict)
    /\ scan' = [scan EXCEPT !.i = @ + 1]
    /\ UNCHANGED <<lexer_lst, macros_dict>>
    /\ UNCHANGED <<text, trigraphs_enabled, pc, ph1, ph2, ph3, tok, pipeline_vars,
                   lexer_lst_in,
                   decoder_vars, cppp_vars>>

NextDirectives ==
    \/ DirectivesReturn
    \/ DirectivesHash
    \/ DirectivesPrevSpace
    \/ DirectivesPerform
    \/ DirectivesNotFirst
    \/ DirectivesMacroSub
    \/ DirectivesAdvance

SpecDirectives == InitDirectives /\ [][NextDirectives]_vars

\* The interpreter goes on running the loops: weak fairness of the step.
\* An iteration that changes nothing is no step, and its loop goes round
\* for ever.
SpecDirectivesFair ==
    InitDirectives /\ [][NextDirectives]_vars /\ WF_vars(NextDirectives)


\* Most lines in a token list of SpecDirectiveLines
MaxLines == 3

\* The lines of SpecDirectiveLines, as the tokenizer splits them
\* #define X 1
LineDefineX ==
    <<<<"#">>, <<"d", "e", "f", "i", "n", "e">>, <<SP>>, <<"X">>, <<SP>>,
      <<"1">>>>

\* #undef X
LineUndefX ==
    <<<<"#">>, <<"u", "n", "d", "e", "f">>, <<SP>>, <<"X">>>>

\* a plain occurrence of X
LineX ==
    <<<<"X">>>>

\* #ifdef NOPE
LineIfdefNope ==
    <<<<"#">>, <<"i", "f", "d", "e", "f">>, <<SP>>,
      <<"N", "O", "P", "E">>>>

\* #endif
LineEndif ==
    <<<<"#">>, <<"e", "n", "d", "i", "f">>>>

\* a line of ordinary tokens
LineOrdinary ==
    <<<<"a">>, <<SP>>, <<"a">>>>

\* #define MAX(a,b) ((a)>(b)?(a):(b))
LineDefineMax ==
    <<<<"#">>, <<"d", "e", "f", "i", "n", "e">>, <<SP>>,
      <<"M", "A", "X">>, <<"(">>, <<"a">>, <<",">>, <<"b">>, <<")">>,
      <<SP>>, <<"(">>, <<"(">>, <<"a">>, <<")">>, <<">">>, <<"(">>,
      <<"b">>, <<")">>, <<"?">>, <<"(">>, <<"a">>, <<")">>, <<":">>,
      <<"(">>, <<"b">>, <<")">>, <<")">>>>

\* MAX(1,2)
LineMax ==
    <<<<"M", "A", "X">>, <<"(">>, <<"1">>, <<",">>, <<"2">>, <<")">>>>

\* #endif after a space
LineSpaceEndif ==
    <<<<SP>>, <<"#">>, <<"e", "n", "d", "i", "f">>>>

\* a # that is not first on its line
LineNotFirst ==
    <<<<"a">>, <<"#">>>>

DirectiveLines ==
    {LineDefineX, LineUndefX, LineX, LineIfdefNope, LineEndif, LineOrdinary,
     LineDefineMax, LineMax, LineSpaceEndif, LineNotFirst}

\* The token texts of the lines ls, a newline token after each
RECURSIVE JoinLines(_)
JoinLines(ls) ==
    IF ls = <<>> THEN <<>>
    ELSE Head(ls) \o <<<<NL>>>> \o JoinLines(Tail(ls))

\* directives_do_process is called with the tokens of up to MaxLines lines
\* and a macro table that is empty or holds X.
InitDirectiveLines ==
    /\ \E ls \in Texts(DirectiveLines, MaxLines) :
          lexer_lst = MakeTokens(JoinLines(ls))
    /\ lexer_lst_in = lexer_lst
    /\ macros_dict \in {NoMacros, [n \in {<<"X">>} |-> CMacro(n)]}
    /\ scan = [pc |-> "while", i |-> 0, j |-> 0,
               cond_queue |-> <<>>]
    /\ text = <<>>
    /\ trigraphs_enabled = FALSE
    /\ pc = "not_run"
    /\ ph1 = NotRun
    /\ ph2 = NotRun
    /\ ph3 = NotRun
    /\ tok = NotRun
    /\ PipelineIdle
    /\ DecoderIdle
    /\ CpppIdle

SpecDirectiveLines == InitDirectiveLines /\ [][NextDirectives]_vars


\* Most tokens between the parentheses of the #define of SpecDefineParams
MaxParams == 5

\* The tokens a parameter list of SpecDefineParams is made of
ParamTokenTexts == {<<"a">>, <<",">>, <<".">>, <<SP>>}

\* What comes before the #define line in a list of SpecDefineParams
ParamPrefixes ==
    {<<>>, <<<<NL>>>>, <<<<"a">>, <<NL>>>>, <<<<SP>>>>,
     <<<<"a">>, <<"#">>, <<NL>>>>}

\* #define f( before the parameter list
LineDefineF ==
    <<<<"#">>, <<"d", "e", "f", "i", "n", "e">>, <<SP>>, <<"f">>, <<"(">>>>

\* directives_do_process is called with a list that holds a function-like
\* #define, its parameter list any of up to MaxParams tokens, and a macro
\* table that is empty or holds a.
InitDefineParams ==
    /\ \E pre \in ParamPrefixes, params \in Texts(ParamTokenTexts, MaxParams) :
          lexer_lst = MakeTokens(pre \o LineDefineF \o params
                                     \o <<<<")">>, <<NL>>>>)
    /\ lexer_lst_in = lexer_lst
    /\ macros_dict \in {NoMacros, [n \in {<<"a">>} |-> CMacro(n)]}
    /\ scan = [pc |-> "while", i |-> 0, j |-> 0,
               cond_queue |-> <<>>]
    /\ text = <<>>
    /\ trigraphs_enabled = FALSE
    /\ pc = "not_run"
    /\ ph1 = NotRun
    /\ ph2 = NotRun
    /\ ph3 = NotRun
    /\ tok = NotRun
    /\ PipelineIdle
    /\ DecoderIdle
    /\ CpppIdle

SpecDefineParams == InitDefineParams /\ [][NextDirectives]_vars

---------------------------------------------------------------------------
(* The source decoder on its own: the generators of cparser.py 16-95 *)

\* Longest input of SpecDecoder
MaxDecodeLen == 5

DecoderAlphabet == {"a", NL, CR, FF, FFFD}

\* What open(file_name, 'r', ...) of line 29 hands to the for loops: in text
\* mode with the default newline=None, '\r\n' and '\r' are read as '\n'.
RECURSIVE universal_newlines(_)
universal_newlines(t) ==
    IF t = <<>> THEN <<>>
    ELSE IF Len(t) >= 2 /\ t[1] = CR /\ t[2] = NL
         THEN <<NL>> \o universal_newlines(SubSeq(t, 3, Len(t)))
    ELSE IF t[1] = CR
         THEN <<NL>> \o universal_newlines(Tail(t))
    ELSE <<t[1]>> \o universal_newlines(Tail(t))

\* One iteration of the inner for loop of input_txt_from_file (lines 35-51)
DecodeFileChar(d, char) ==
    IF char = FFFD
    THEN [d EXCEPT !._file_errs = @ + 1]
    ELSE LET line_num == IF d.line_add THEN d.line_num + 1 ELSE d.line_num
             char_position == IF d.line_add THEN 1 ELSE d.char_position + 1
             c == IF char = CR \/ char = FF THEN NL ELSE char
         IN [d EXCEPT !.line_num = line_num,
                      !.char_position = char_position,
                      !.line_add = (c = NL),
                      !.out = Append(@, <<c, line_num, char_position>>)]

\* The characters the generator funct iterates over
DecoderInput(funct, t) ==
    IF funct = "input_txt_from_string" THEN corrected_text(t)
    ELSE universal_newlines(t)

\* The generator is created on a string, or on a file that exists and
\* holds the characters of text; no stage of the pipeline is looked at.
InitDecoder ==
    /\ text \in Texts(DecoderAlphabet, MaxDecodeLen)
    /\ \E funct \in {"input_txt_from_string", "input_txt_from_file"} :
          decoder = [pc |-> "for", funct |-> funct,
                     rest |-> DecoderInput(funct, text),
                     line_num |-> DecoderInit.line_num,
                     char_position |-> DecoderInit.char_position,
                     line_add |-> DecoderInit.line_add,
                     _file_errs |-> DecoderInit._file_errs,
                     out |-> DecoderInit.out,
                     ret |-> "None"]
    /\ trigraphs_enabled = FALSE
    /\ pc = "not_run"
    /\ ph1 = NotRun
    /\ ph2 = NotRun
    /\ ph3 = NotRun
    /\ tok = NotRun
    /\ PipelineIdle
    /\ DirectivesIdle
    /\ CpppIdle

\* One iteration of the generator's for loop: the character is skipped and
\* counted, or yielded with its line and column.
DecoderIterate ==
    /\ decoder.pc = "for"
    /\ decoder.rest # <<>>
    /\ LET d == [decoder EXCEPT !.rest = Tail(@)]
           char == Head(decoder.rest)
       IN  decoder' = IF decoder.funct = "input_txt_from_string"
                      THEN DecodeChar(d, char)
                      ELSE DecodeFileChar(d, char)
    /\ UNCHANGED <<text, trigraphs_enabled, pc, ph1, ph2, ph3, tok,
                   pipeline_vars, directive_vars, cppp_vars>>

\* return _file_errs (lines 53 and 95): the value of StopIteration
DecoderReturn ==
    /\ decoder.pc = "for"
    /\ decoder.rest = <<>>
    /\ decoder' = [decoder EXCEPT !.pc = "returned", !.ret = decoder._file_errs]
    /\ UNCHANGED <<text, trigraphs_enabled, pc, ph1, ph2, ph3, tok,
                   pipeline_vars, directive_vars, cppp_vars>>

NextDecoder ==
    \/ DecoderIterate
    \/ DecoderReturn

SpecDecoder == InitDecoder /\ [][NextDecoder]_vars

---------------------------------------------------------------------------
(* The class Cppp: src/cppp/cppp.py *)

\* The most Cppp objects built and the most calls made in SpecCppp
MaxInstances == 2
MaxCalls == 3

\* A dict is the set of its items <<key, value>>; a dict with no key
EmptyDict == {}

\* The keys of the dict d
DictKeys(d) == {item[1] : item \in d}

\* dict.update(other): the keys of other are set, the other keys kept
DictUpdate(d, other) ==
    {item \in d : item[1] \notin DictKeys(other)} \cup other

\* d[key] = value
DictSet(d, key, value) == DictUpdate(d, {<<key, value>>})

\* The predefined_values arguments tried: None, dicts, and a str
PredefinedArgs ==
    {[type |-> "NoneType", val |-> {}],
     [type |-> "str", val |-> {}],
     [type |-> "dict", val |-> {<<"X", "1">>}],
     [type |-> "dict", val |-> {<<"Y", "2">>}],
     [type |-> "dict", val |-> {<<"X", "2">>}]}

\* The sys_path arguments tried: None, a list, and a str
SysPathArgs ==
    {[type |-> "NoneType", val |-> <<>>],
     [type |-> "str", val |-> <<>>],
     [type |-> "list", val |-> <<"/usr/include">>]}

\* The files of the run: for a file that exists, the values of the tokens
\* do_translation_phase_3 appends for it (lines 269-327) and the number of
\* its U+FFFD characters (lines 78-80); missing.h does not exist.
Files ==
    [file_name \in {"a.h", "b.h", "missing.h"} |->
        CASE file_name = "a.h" ->
                 [exists |-> TRUE, tokens |-> <<"a", NL>>, errs |-> 0]
          [] file_name = "b.h" ->
                 [exists |-> TRUE, tokens |-> <<"b">>, errs |-> 1]
          [] OTHER ->
                 [exists |-> FALSE, tokens |-> <<>>, errs |-> 0]]

\* The class body (lines 23-27): the objects bound to the class attributes
\* when the module is imported, and no Cppp object yet.
InitCppp ==
    /\ cppp_class = [_lexer_lst |-> <<>>,
                     _predefined_values |-> EmptyDict,
                     _sys_path |-> <<>>,
                     _file_errs |-> EmptyDict]
    /\ instances = <<>>
    /\ cppp_call = [op |-> "none", self |-> 0, n |-> 0,
                    predefined_values |-> {}]
    /\ text = <<>>
    /\ trigraphs_enabled = FALSE
    /\ pc = "not_run"
    /\ ph1 = NotRun
    /\ ph2 = NotRun
    /\ ph3 = NotRun
    /\ tok = NotRun
    /\ PipelineIdle
    /\ DirectivesIdle
    /\ DecoderIdle

\* Cppp.__init__ (lines 29-56) on a new object: the attributes it sets on
\* self, the update of _predefined_values, which self does not have and
\* finds on the class, and the TypeError of lines 49 and 55, which leaves
\* no object to the caller.
CpppInit ==
    /\ cppp_call.n < MaxCalls
    /\ Len(instances) < MaxInstances
    /\ \E main_file_name \in DOMAIN Files, predefined_values \in PredefinedArgs,
          sys_path \in SysPathArgs :
          LET updated ==
                  IF predefined_values.type = "dict"
                  THEN [cppp_class EXCEPT !._predefined_values =
                                      DictUpdate(@, predefined_values.val)]
                  ELSE cppp_class
              self == [main_file_name |-> main_file_name,
                       trigraphs_enabled |-> FALSE,
                       follow_included |-> FALSE,
                       has_sys_path |-> sys_path.type = "list",
                       _sys_path |-> sys_path.val]
              call == [op |-> "__init__", self |-> Len(instances) + 1,
                       n |-> cppp_call.n + 1,
                       predefined_values |-> predefined_values.val]
          IN  IF predefined_values.type = "str"
              THEN /\ cppp_class' = cppp_class
                   /\ instances' = instances
                   /\ cppp_call' = [call EXCEPT !.op = "__init__ raised",
                                                 !.self = 0]
              ELSE IF sys_path.type = "str"
              THEN /\ cppp_class' = updated
                   /\ instances' = instances
                   /\ cppp_call' = [call EXCEPT !.op = "__init__ raised",
                                                 !.self = 0]
              ELSE /\ cppp_class' = updated
                   /\ instances' = Append(instances, self)
                   /\ cppp_call' = call
    /\ UNCHANGED <<text, trigraphs_enabled, pc, ph1, ph2, ph3, tok,
                   pipeline_vars, directive_vars, decoder_vars>>

\* Cppp.parse_tu (lines 360-362) on the object k: read_input_file sets
\* self._file_errs[file_name] and counts in it (lines 69, 79), and
\* do_translation_phase_3 appends the tokens of the file to the list it is
\* given, self._lexer_lst; the object has neither attribute and finds both
\* on the class. On a file that does not exist open() raises after line 69.
CpppParseTu ==
    /\ cppp_call.n < MaxCalls
    /\ \E k \in 1..Len(instances) :
          LET file_name == instances[k].main_file_name
              file == Files[file_name]
          IN  /\ cppp_class' =
                     [cppp_class EXCEPT
                         !._file_errs = DictSet(@, file_name, file.errs),
                         !._lexer_lst = @ \o file.tokens]
              /\ cppp_call' = [op |-> IF file.exists THEN "parse_tu"
                                      ELSE "parse_tu raised",
                               self |-> k, n |-> cppp_call.n + 1,
                               predefined_values |-> {}]
    /\ UNCHANGED instances
    /\ UNCHANGED <<text, trigraphs_enabled, pc, ph1, ph2, ph3, tok,
                   pipeline_vars, directive_vars, decoder_vars>>

NextCppp ==
    \/ CpppInit
    \/ CpppParseTu

SpecCppp == InitCppp /\ [][NextCppp]_vars

\* self._predefined_values, self._lexer_lst, self._file_errs and
\* self._sys_path as they are read through the object k: the attribute of
\* the object where __init__ has set one, else the attribute of the class
Observed(k) ==
    [_predefined_values |-> cppp_class._predefined_values,
     _lexer_lst |-> cppp_class._lexer_lst,
     _file_errs |-> cppp_class._file_errs,
     _sys_path |-> IF instances[k].has_sys_path
                   THEN instances[k]._sys_path
                   ELSE cppp_class._sys_path]

---------------------------------------------------------------------------
(* The source text as the claims read it *)

\* The input as the decoder hands it to phase 1
Decoded == input_txt_from_string(text)

SrcChars == Chars(Decoded)

SrcPos(i) == <<Decoded[i][2], Decoded[i][3]>>

\* The i-th input character with its position, as a queue element
Src(i) == <<Decoded[i][1], SrcPos(i)>>

Elems(q) == {q[i] : i \in 1..Len(q)}

\* The lexical class of every character of t, as the C language defines it:
\* "S" a string literal (quotes included), "C" a character literal (only
\* when charlit is set), "L" a line comment (from // up to, not including,
\* the newline), "B" a block comment (from /* to the first */ after the
\* opener), "N" anything else.  The state the text ends in follows the
\* classes, as element Len(t) + 1.
RECURSIVE RefLexFrom(_, _, _, _, _)
RefLexFrom(t, i, st, acc, charlit) ==
    IF i > Len(t) THEN Append(acc, st)
    ELSE LET c == t[i]
             nxt == IF i < Len(t) THEN t[i + 1] ELSE "<EOF>"
         IN
         IF st = "N" THEN
            IF c = QUOTE
                THEN RefLexFrom(t, i + 1, "S", Append(acc, "S"), charlit)
            ELSE IF charlit /\ c = APOS
                THEN RefLexFrom(t, i + 1, "C", Append(acc, "C"), charlit)
            ELSE IF c = SLASH /\ nxt = SLASH
                THEN RefLexFrom(t, i + 2, "L", acc \o <<"L", "L">>, charlit)
            ELSE IF c = SLASH /\ nxt = STAR
                THEN RefLexFrom(t, i + 2, "B", acc \o <<"B", "B">>, charlit)
            ELSE RefLexFrom(t, i + 1, "N", Append(acc, "N"), charlit)
         ELSE IF st \in {"S", "C"} THEN
            IF c = BSL /\ i < Len(t)
                THEN RefLexFrom(t, i + 2, st, acc \o <<st, st>>, charlit)
            ELSE IF c = (IF st = "S" THEN QUOTE ELSE APOS)
                THEN RefLexFrom(t, i + 1, "N", Append(acc, st), charlit)
            ELSE RefLexFrom(t, i + 1, st, Append(acc, st), charlit)
         ELSE IF st = "L" THEN
            IF c = NL
                THEN RefLexFrom(t, i + 1, "N", Append(acc, "N"), charlit)
            ELSE RefLexFrom(t, i + 1, "L", Append(acc, "L"), charlit)
         ELSE
            IF c = STAR /\ nxt = SLASH
                THEN RefLexFrom(t, i + 2, "N", acc \o <<"B", "B">>, charlit)
            ELSE RefLexFrom(t, i + 1, "B", Append(acc, "B"), charlit)

\* Classes with string literals and comments only
RefClass == RefLexFrom(SrcChars, 1, "N", <<>>, FALSE)

\* Classes with character literals too
RefClassCharLit == RefLexFrom(SrcChars, 1, "N", <<>>, TRUE)

\* The index of the unescaped quote that closes the string literal whose
\* body starts at t[i]; 0 when the literal is not closed.
RECURSIVE RefClosingQuote(_, _)
RefClosingQuote(t, i) ==
    IF i > Len(t) THEN 0
    ELSE IF t[i] = BSL THEN RefClosingQuote(t, i + 2)
    ELSE IF t[i] = QUOTE THEN i
    ELSE RefClosingQuote(t, i + 1)

\* The input characters of a backslash-newline pair
InSplice(i) ==
    \/ SrcChars[i] = BSL /\ i < Len(SrcChars) /\ SrcChars[i + 1] = NL
    \/ SrcChars[i] = NL /\ i > 1 /\ SrcChars[i - 1] = BSL

\* q without its backslash-newline pairs, the line splicing of ISO phase 2
RECURSIVE RefSplice(_)
RefSplice(q) ==
    IF q = <<>> THEN <<>>
    ELSE IF Len(q) >= 2 /\ q[1][1] = BSL /\ q[2][1] = NL
        THEN RefSplice(SubSeq(q, 3, Len(q)))
    ELSE <<q[1]>> \o RefSplice(Tail(q))

AfterPhase1 == pc = "phase_2"
AfterPhase2 == pc = "phase_3_remove_comments"
AfterPhase3a == pc = "phase_3_tokenize"
AfterTokenize == pc = "done"

---------------------------------------------------------------------------
(* Claims *)

\* C1: after phases 1, 2 and 3a, no character of a line comment (from a //
\* outside string literals and block comments up to, not including, the
\* next newline) is in the output.
C1_LineCommentRemoved ==
    AfterPhase3a =>
        \A i \in 1..Len(Decoded) :
            RefClass[i] = "L" => Src(i) \notin Elems(ph3.out)

\* C2: after phases 1, 2 and 3a, no character of a block comment (from a /*
\* outside string literals and line comments to the first following */,
\* without nesting) is in the output.
C2_BlockCommentRemoved ==
    AfterPhase3a =>
        \A i \in 1..Len(Decoded) :
            RefClass[i] = "B" => Src(i) \notin Elems(ph3.out)

\* C3: when every string literal of the input is closed, the characters of
\* the string literals, the backslash-newline pairs that phase 2 is to
\* splice aside, are the output of phases 1, 2 and 3a at their positions:
\* each of them, in order and nothing else.
C3_StringPassesThrough ==
    AfterPhase3a /\ RefClass[Len(Decoded) + 1] # "S" =>
        LET strIdx == {i \in 1..Len(Decoded) : RefClass[i] = "S"}
            InString(e) == \E i \in strIdx : e[2] = SrcPos(i)
            Kept(e) == \E i \in strIdx : e = Src(i) /\ ~InSplice(i)
        IN  SelectSeq(ph3.out, InString) = SelectSeq([i \in 1..Len(Decoded) |-> Src(i)], Kept)

\* An input that is one closed string literal with a backslash escape and
\* no newline
IsEscapedLiteral ==
    /\ Len(SrcChars) >= 2
    /\ SrcChars[1] = QUOTE
    /\ RefClosingQuote(SrcChars, 2) = Len(SrcChars)
    /\ \E i \in 1..Len(SrcChars) : SrcChars[i] = BSL
    /\ \A i \in 1..Len(SrcChars) : SrcChars[i] # NL

\* C4: a string literal with backslash escapes comes out of phases 1, 2, 3a
\* and the tokenizer as one token whose text is the literal, and every
\* stage is out of its in-string state after the closing quote.
C4_EscapedLiteralOneToken ==
    AfterTokenize /\ IsEscapedLiteral =>
        /\ ~ph1.in_string
        /\ ~ph3.in_string
        /\ ~tok.in_string
        /\ Len(tok.out) = 1
        /\ tok.out[1].val = SrcChars

\* C5: with character literals told apart, and every literal of the input
\* closed, every character of a character literal is in the output of
\* phases 1, 2 and 3a and no character of a comment is.
C5_CharLiteralDistinguished ==
    AfterPhase3a /\ RefClassCharLit[Len(Decoded) + 1] \in {"N", "L"} =>
        \A i \in 1..Len(Decoded) :
            /\ RefClassCharLit[i] = "C" => Src(i) \in Elems(ph3.out)
            /\ RefClassCharLit[i] \in {"L", "B"} => Src(i) \notin Elems(ph3.out)

\* C6: phase 2 deletes every newline that a backslash immediately precedes
\* in its input, and its output holds no backslash immediately followed by
\* a newline.
C6_NoBackslashNewline ==
    AfterPhase2 =>
        /\ \A i \in 2..Len(ph1.out) :
              ph1.out[i][1] = NL /\ ph1.out[i - 1][1] = BSL
                  => ph1.out[i] \notin Elems(ph2.out)
        /\ \A k \in 2..Len(ph2.out) :
              ~(ph2.out[k - 1][1] = BSL /\ ph2.out[k][1] = NL)

\* C7: the output of phase 2 is its input without the backslash-newline
\* pairs, every other positioned character kept in order.
C7_OnlySplicedPairsRemoved ==
    AfterPhase2 => ph2.out = RefSplice(ph1.out)

\* White-space truncation as C8 states it: outside string literals and
\* comments a run of non-newline white space becomes one space and a run of
\* newlines one newline; every other character is unchanged.
RefTruncate(t, cls) ==
    LET Outside(i) == cls[i] = "N"
        Blank(i) == Outside(i) /\ IsSpace(t[i]) /\ t[i] # NL
        Newline(i) == Outside(i) /\ t[i] = NL
        Dropped(i) == i > 1 /\ \/ Blank(i) /\ Blank(i - 1)
                               \/ Newline(i) /\ Newline(i - 1)
        Out(i) == IF Blank(i) THEN SP ELSE t[i]
        idx == SelectSeq([i \in 1..Len(t) |-> i], LAMBDA i : ~Dropped(i))
    IN  [k \in 1..Len(idx) |-> Out(idx[k])]

\* C8: the text phase 1 puts out is the input with white space truncated
\* exactly outside string literals and comments.
C8_WhitespaceTruncatedOutside ==
    AfterPhase1 => Chars(ph1.out) = RefTruncate(SrcChars, RefClass)

\* The start and end indexes of the closed string literals of t, read from
\* index i on
RECURSIVE RefStringSpans(_, _)
RefStringSpans(t, i) ==
    IF i > Len(t) THEN {}
    ELSE IF t[i] = QUOTE
        THEN LET j == RefClosingQuote(t, i + 1)
             IN IF j = 0 THEN {} ELSE {<<i, j>>} \cup RefStringSpans(t, j + 1)
    ELSE RefStringSpans(t, i + 1)

\* C10: every closed string literal of the tokenizer's input is the text of
\* one token, which starts at the literal's opening quote.
C10_StringLiteralOneToken ==
    AfterTokenize =>
        \A span \in RefStringSpans(Chars(ph3.out), 1) :
            \E k \in 1..Len(tok.out) :
                /\ tok.out[k].val = SubSeq(Chars(ph3.out), span[1], span[2])
                /\ tok.out[k].start = ph3.out[span[1]][2]

\* The replacement C9 gives for the third character of a trigraph
RefTrigraph ==
    [c \in {"=", "/", "'", "(", ")", "!", "<", ">", "-"} |->
        CASE c = "=" -> "#"
          [] c = "/" -> "\\"
          [] c = "'" -> "^"
          [] c = "(" -> "["
          [] c = ")" -> "]"
          [] c = "!" -> "|"
          [] c = "<" -> "{"
          [] c = ">" -> "}"
          [] c = "-" -> "~"]

\* The indexes at which a left-to-right scan of t from index i finds a
\* trigraph
RECURSIVE RefTrigraphStarts(_, _)
RefTrigraphStarts(t, i) ==
    IF i + 2 > Len(t) THEN {}
    ELSE IF t[i] = "?" /\ t[i + 1] = "?" /\ t[i + 2] \in DOMAIN RefTrigraph
        THEN {i} \cup RefTrigraphStarts(t, i + 3)
    ELSE RefTrigraphStarts(t, i + 1)

\* The trigraph at input index i is replaced: its replacement is in q at the
\* position of the first question mark, and nothing else of the three
\* characters is.
TrigraphReplaced(q, i) ==
    /\ <<RefTrigraph[SrcChars[i + 2]], SrcPos(i)>> \in Elems(q)
    /\ \A e \in Elems(q) :
          /\ e[2] = SrcPos(i) => e[1] = RefTrigraph[SrcChars[i + 2]]
          /\ e[2] # SrcPos(i + 1)
          /\ e[2] # SrcPos(i + 2)

\* The three characters at input indexes i, i+1, i+2 are in q unchanged and
\* adjacent.
TrigraphUnchanged(q, i) ==
    \E k \in 1..(Len(q) - 2) :
        /\ q[k] = Src(i)
        /\ q[k + 1] = Src(i + 1)
        /\ q[k + 2] = Src(i + 2)

\* C9: in the output of phase 1, with trigraphs_enabled every trigraph a
\* left-to-right scan of the input finds, inside or outside a string
\* literal, is replaced by the character of the table; without it the
\* three characters are output unchanged.
C9_TrigraphsReplaced ==
    AfterPhase1 =>
        \A i \in RefTrigraphStarts(SrcChars, 1) :
            IF trigraphs_enabled
            THEN TrigraphReplaced(ph1.out, i)
            ELSE TrigraphUnchanged(ph1.out, i)

\* A text with trigraphs enabled in which the scan passes one question
\* mark and then finds a trigraph, inside a string literal, and phase 1
\* has replaced it.
C9_Witness ==
    /\ AfterPhase1
    /\ trigraphs_enabled
    /\ \E i \in RefTrigraphStarts(SrcChars, 1) :
          /\ RefClass[i] = "S"
          /\ SrcChars[i - 1] = "?"
          /\ TrigraphReplaced(ph1.out, i)

---------------------------------------------------------------------------
(* Claims on the tokenizer *)

\* The tokenizer's input, as characters
TokIn == Chars(ph3.out)

\* The indexes of t, read from index i on, that lie outside string literals;
\* a literal runs from its opening quote to its closing quote, or to the end
\* of t when it is not closed.
RECURSIVE RefOutsideStrings(_, _)
RefOutsideStrings(t, i) ==
    IF i > Len(t) THEN {}
    ELSE IF t[i] = QUOTE
        THEN LET j == RefClosingQuote(t, i + 1)
             IN IF j = 0 THEN {} ELSE RefOutsideStrings(t, j + 1)
    ELSE {i} \cup RefOutsideStrings(t, i + 1)

\* The maximal runs <<a, b>> of non-delimiter characters of t
RefRuns(t) ==
    {r \in (1..Len(t)) \X (1..Len(t)) :
        /\ r[1] <= r[2]
        /\ \A i \in r[1]..r[2] : t[i] \notin symbols
        /\ r[1] = 1 \/ t[r[1] - 1] \in symbols
        /\ r[2] = Len(t) \/ t[r[2] + 1] \in symbols}

\* Some emitted token has the text val and starts at position start
Emitted(val, start) ==
    \E k \in 1..Len(tok.out) :
        tok.out[k].val = val /\ tok.out[k].start = start

\* C11: outside string literals, every delimiter character of the
\* tokenizer's input is a one-character token of its own, every maximal run
\* of non-delimiter characters is one token, and no token that is not a
\* string literal mixes delimiters and non-delimiters.
C11_SegmentsOutsideStrings ==
    AfterTokenize =>
        LET outside == RefOutsideStrings(TokIn, 1)
        IN  /\ \A i \in outside :
                  TokIn[i] \in symbols => Emitted(<<TokIn[i]>>, ph3.out[i][2])
            /\ \A r \in RefRuns(TokIn) :
                  r[1] \in outside =>
                      Emitted(SubSeq(TokIn, r[1], r[2]), ph3.out[r[1]][2])
            /\ \A k \in 1..Len(tok.out) :
                  LET val == tok.out[k].val
                  IN  val[1] # QUOTE =>
                          \/ Len(val) = 1 /\ val[1] \in symbols
                          \/ \A n \in 1..Len(val) : val[n] \notin symbols

\* The regular expression ^[A-Za-z_][A-Za-z0-9_]*$ as C12 reads it: the
\* whole text, first character to last.
RefIdentifier(val) ==
    /\ Len(val) >= 1
    /\ val[1] \in Letters \cup {"_"}
    /\ \A n \in 2..Len(val) : val[n] \in Letters \cup Digits \cup {"_"}

\* C12: the identifier flag of every emitted token is true exactly when the
\* token's whole text matches the identifier expression; it is false for a
\* text that starts with a digit, for a delimiter token and for a string
\* literal.
C12_IdentifierFlag ==
    AfterTokenize =>
        \A k \in 1..Len(tok.out) :
            LET t == tok.out[k]
            IN  /\ t.identifier_compatible <=> RefIdentifier(t.val)
                /\ t.val[1] \in Digits \cup symbols => ~t.identifier_compatible

\* A run in which one token is an identifier holding a digit or an
\* underscore after its first character and another starts with a digit.
C12_Witness ==
    /\ AfterTokenize
    /\ \E k \in 1..Len(tok.out) :
          /\ tok.out[k].identifier_compatible
          /\ Len(tok.out[k].val) >= 2
          /\ tok.out[k].val[2] \in Digits \cup {"_"}
    /\ \E k \in 1..Len(tok.out) :
          /\ tok.out[k].val[1] \in Digits
          /\ ~tok.out[k].identifier_compatible

\* C13: the texts of the emitted tokens, joined in emission order, are the
\* character sequence the tokenizer consumed.
C13_TokensKeepText ==
    AfterTokenize => JoinTokens(tok.out) = TokIn

\* A run with a string literal token, a token of several non-delimiter
\* characters and at least three tokens.
C13_Witness ==
    /\ AfterTokenize
    /\ Len(tok.out) >= 3
    /\ \E k \in 1..Len(tok.out) : tok.out[k].val[1] = QUOTE
    /\ \E k \in 1..Len(tok.out) :
          /\ Len(tok.out[k].val) >= 2
          /\ \A n \in 1..Len(tok.out[k].val) : tok.out[k].val[n] \notin symbols

\* The token texts of a run of phases 1, 2, 3a and the tokenizer on the
\* text t, trigraphs off
TokenTexts(t) ==
    LET q1 == do_translation_phase_1(t, FALSE).out
        q2 == do_translation_phase_2(q1).out
        q3 == do_translation_phase_3_remove_comments(q2).out
        toks == do_translation_phase_3_tokenize(q3).out
    IN  [k \in 1..Len(toks) |-> toks[k].val]

\* C14: a second run on the flat text of a run gives the token texts of the
\* first run.
C14_RoundTrip ==
    AfterTokenize =>
        TokenTexts(JoinTokens(tok.out)) = [k \in 1..Len(tok.out) |-> tok.out[k].val]

---------------------------------------------------------------------------
(* Claims on the pipeline of tasks *)

\* The tasks run_translation has created have all returned
AllTasksReturned == \A i \in 0..5 : tasks[i] \in {"done", "none"}

\* C15: for every input text and every phase in 1..4, every stage task and
\* the output collector eventually return and run_translation returns.
C15_RunTerminates ==
    input_funct = "input_txt_from_string" =>
        <>(pc = "returned" /\ AllTasksReturned)

\* A run of phase 4 on a text of several tokens has returned, its five
\* stages and the collector with it.
C15_Witness ==
    /\ pc = "returned"
    /\ phase = 4
    /\ \A i \in 0..5 : tasks[i] = "done"
    /\ Len(out_text) >= 2

\* The task that gets from queue q: the next stage, or the collector on
\* the queue of the last stage
Consumer(q) == IF q + 1 < Stages THEN q + 1 ELSE 5

\* C16: on every queue in use, None is put at most once and as the last
\* put; the producer has returned exactly when it has put None, and a
\* stage puts it only after getting None from its own input; what the
\* consumer has got is, in order, what was put and is no longer queued; a
\* consumer that has returned has got everything put, None last.
C16_SentinelDiscipline ==
    \A q \in 0..(Stages - 1) :
        /\ \A k \in 1..Len(put_log[q]) :
              put_log[q][k] = None => k = Len(put_log[q])
        /\ tasks[q] = "done" <=>
              put_log[q] # <<>> /\ Last(put_log[q]) = None
        /\ q >= 1 /\ tasks[q] = "done" =>
              get_log[q - 1] # <<>> /\ Last(get_log[q - 1]) = None
        /\ put_log[q] = get_log[q] \o data_queues[q]
        /\ tasks[Consumer(q)] = "done" =>
              /\ get_log[q] = put_log[q]
              /\ get_log[q] # <<>>
              /\ Last(get_log[q]) = None

\* A run of phase 4 in which the collector has returned after getting at
\* least two tokens and then None, while every queue before carried real
\* elements.
C16_Witness ==
    /\ phase = 4
    /\ tasks[5] = "done"
    /\ Len(get_log[4]) >= 3
    /\ Last(get_log[4]) = None
    /\ \A q \in 0..3 : Len(get_log[q]) >= 3

\* The capacity of the queues Cppp.do_parse_tu_tf3 builds: asyncio.Queue(5)
QueueCapacity == 5

\* C17: no queue between two stages ever holds more elements than the
\* capacity of a handful of elements.
C17_QueuesBounded ==
    \A q \in 0..4 : Len(data_queues[q]) <= QueueCapacity

\* The queue task i gets from
InQueue(i) == IF i = 5 THEN Stages - 1 ELSE i - 1

\* Task i waits at get on an empty queue whose producer has raised
WaitsOnFailedProducer(i) ==
    /\ tasks[i] = "running"
    /\ data_queues[InQueue(i)] = <<>>
    /\ tasks[InQueue(i)] = "raised"

\* C18: when the source file does not exist nothing is put on any queue,
\* no output is returned, and once run_translation has failed no task
\* waits on a queue whose producer has failed.
C18_FileNotFoundFails ==
    input_funct = "input_txt_from_file" =>
        /\ \A q \in 0..4 : put_log[q] = <<>>
        /\ out_text = <<>>
        /\ pc # "returned"
        /\ pc = "raised" => \A i \in 1..5 : ~WaitsOnFailedProducer(i)

\* The directive names of _cpp_directive_handlers and
\* _cpp_directive_handlers_conditionals, as token texts
RefDirectiveKeywords ==
    {<<"d", "e", "f", "i", "n", "e">>, <<"u", "n", "d", "e", "f">>,
     <<"i", "n", "c", "l", "u", "d", "e">>, <<"e", "r", "r", "o", "r">>,
     <<"w", "a", "r", "n", "i", "n", "g">>, <<"l", "i", "n", "e">>,
     <<"p", "r", "a", "g", "m", "a">>, <<"i", "f">>, <<"e", "l", "i", "f">>,
     <<"e", "l", "s", "e">>, <<"e", "n", "d", "i", "f">>,
     <<"i", "f", "d", "e", "f">>, <<"i", "f", "n", "d", "e", "f">>}

\* In the token texts t, only space tokens lie between the token at k and
\* the start of its line
RefFirstOnLine(t, k) ==
    \A n \in 1..(k - 1) :
        t[n] # <<SP>> => \E m \in n..(k - 1) : t[m] = <<NL>>

\* The token at n is the first non-space token after the token at k
RefNextNonSpace(t, k, n) ==
    /\ n > k
    /\ n <= Len(t)
    /\ t[n] # <<SP>>
    /\ \A m \in (k + 1)..(n - 1) : t[m] = <<SP>>

\* In the token texts t a directive line starts at k: a # that is first on
\* its line, followed by a directive name
RefDirectiveAt(t, k) ==
    /\ t[k] = <<"#">>
    /\ RefFirstOnLine(t, k)
    /\ \E n \in 1..Len(t) : RefNextNonSpace(t, k, n) /\ t[n] \in RefDirectiveKeywords

\* The indexes n in the token sequence toks of the names that a #define
\* line defines
RefDefinedNames(toks) ==
    LET t == [k \in 1..Len(toks) |-> toks[k].val]
    IN  {n \in 1..Len(t) :
            /\ RefIdentifier(t[n])
            /\ \E k, d \in 1..Len(t) :
                  /\ t[k] = <<"#">>
                  /\ RefFirstOnLine(t, k)
                  /\ RefNextNonSpace(t, k, d)
                  /\ t[d] = <<"d", "e", "f", "i", "n", "e">>
                  /\ RefNextNonSpace(t, d, n)}

\* C19: the text a run of phase 4 returns holds no directive line, and no
\* token the run puts out is the name of a macro that a line before it
\* defines.
C19_DirectiveFreeExpanded ==
    pc = "returned" /\ phase = 4 /\ input_funct = "input_txt_from_string" =>
        /\ \A k \in 1..Len(out_text) : ~RefDirectiveAt(out_text, k)
        /\ \A n \in RefDefinedNames(tok.out) :
              \A k \in 1..Len(ph4.out) :
                  ~(/\ ph4.out[k].val = tok.out[n].val
                    /\ ph4.out[k].start[1] > tok.out[n].start[1])

---------------------------------------------------------------------------
(* Claims on the directive engine *)

\* The texts of the tokens of lexer_lst
LexerTexts == [k \in 1..Len(lexer_lst) |-> lexer_lst[k].val]

\* The scan is at a # and decides what it is
AtHash == scan.pc = "prev_token"

\* The # the scan is at is the first non-space token of its line
HashFirstOnLine == RefFirstOnLine(LexerTexts, scan.i + 1)

\* The step hands the # to _do_perform_directive
DispatchStep ==
    LET r == do_perform_directive(lexer_lst, scan.i, macros_dict)
    IN  /\ lexer_lst' = r.lexer_lst
        /\ macros_dict' = r.macros_dict
        /\ scan'.pc \in {"while", "raised"}
        /\ scan'.pc = "while" => scan'.i = scan.i + r.ret

\* The step leaves the # in the list and goes on to the next token
OrdinaryStep ==
    /\ UNCHANGED <<lexer_lst, macros_dict>>
    /\ scan'.pc = "while"
    /\ scan'.i = scan.i + 1

\* C20: a # that is the first non-space token of its line is handed to the
\* directive dispatch; any other # is left in the token list and the scan
\* goes on with the next token.
C20_HashFirstOnLineOnly ==
    [][AtHash => IF HashFirstOnLine THEN DispatchStep ELSE OrdinaryStep]_vars

\* The index of the newline that ends the line of the token at k in the
\* token texts t, or Len(t) + 1 when the list ends first
RefLineEnd(t, k) ==
    CHOOSE e \in k..(Len(t) + 1) :
        /\ e = Len(t) + 1 \/ t[e] = <<NL>>
        /\ \A m \in k..(e - 1) : t[m] # <<NL>>

\* The scan is at the # of a directive line with a recognized name
AtRecognizedDirective == AtHash /\ RefDirectiveAt(LexerTexts, scan.i + 1)

\* The step removes the tokens from the # the scan is at up to the newline
\* that ends its line, and nothing else
DirectiveLineRemoved ==
    LET e == RefLineEnd(LexerTexts, scan.i + 1)
    IN  lexer_lst' = SubSeq(lexer_lst, 1, scan.i)
                         \o SubSeq(lexer_lst, e, Len(lexer_lst))

\* C21: the dispatch of a recognized directive removes exactly the tokens
\* from its # up to, not including, the newline that ends its line, leaves
\* every other token as it was, and the scan resumes at that newline.
C21_DirectiveLineRemoved ==
    [][AtRecognizedDirective =>
          /\ DirectiveLineRemoved
          /\ scan'.pc = "while"
          /\ scan'.i = scan.i]_vars

\* The texts of the tokens directives_do_process was given
InTexts == [k \in 1..Len(lexer_lst_in) |-> lexer_lst_in[k].val]

\* In the token texts t the tokens of line are a whole line that starts
\* at k
RefLineAt(t, k, line) ==
    /\ k + Len(line) - 1 <= Len(t)
    /\ SubSeq(t, k, k + Len(line) - 1) = line
    /\ k = 1 \/ t[k - 1] = <<NL>>
    /\ k + Len(line) > Len(t) \/ t[k + Len(line)] = <<NL>>

\* directives_do_process is over: it returned or an exception left it
Terminal == scan.pc \in {"returned", "raised"}

\* The tokens of t after the line that starts at k and has n tokens
RefRest(t, k, n) == SubSeq(t, k + n, Len(t))

\* The token texts t end with the token texts r
RefEndsWith(t, r) ==
    /\ Len(r) <= Len(t)
    /\ SubSeq(t, Len(t) - Len(r) + 1, Len(t)) = r

\* C22: when the list holds a line #define X 1, no directive and no X
\* before it, and later a line #undef X, no directive after it,
\* directives_do_process gets past the #undef,
\* X is then no key of the macro table, and the tokens after the #undef
\* line, the plain occurrences of X among them, are left as they were.
C22_UndefRemovesMacro ==
    \A k, u \in 1..Len(InTexts) :
        (/\ RefLineAt(InTexts, k, LineDefineX)
         /\ RefLineAt(InTexts, u, LineUndefX)
         /\ k < u
         /\ \A n \in 1..k - 1 : InTexts[n] \notin {<<"#">>, <<"X">>}
         /\ \A n \in u + 1..Len(InTexts) : InTexts[n] # <<"#">>
         /\ Terminal)
        => /\ scan.pc = "returned"
           /\ <<"X">> \notin DOMAIN macros_dict
           /\ RefEndsWith(LexerTexts, RefRest(InTexts, u, Len(LineUndefX)))

\* ((1)>(2)?(1):(2)), the replacement list of MAX with 1 for a and 2 for b
RefMaxExpansion ==
    <<<<"(">>, <<"(">>, <<"1">>, <<")">>, <<">">>, <<"(">>, <<"2">>, <<")">>,
      <<"?">>, <<"(">>, <<"1">>, <<")">>, <<":">>, <<"(">>, <<"2">>, <<")">>,
      <<")">>>>

\* C23: when the line #define MAX(a,b) ((a)>(b)?(a):(b)) is followed by
\* the line MAX(1,2), no directive and no macro name anywhere else in the
\* list, directives_do_process returns with the directive line removed and
\* the tokens of MAX(1,2) replaced by those of ((1)>(2)?(1):(2)).
C23_FunctionLikeSubstitution ==
    \A k \in 1..Len(InTexts) :
        LET m == k + Len(LineDefineMax) + 1
            after == m + Len(LineMax)
            others == (1..k - 1) \cup (after..Len(InTexts))
        IN  (/\ RefLineAt(InTexts, k, LineDefineMax)
             /\ RefLineAt(InTexts, m, LineMax)
             /\ \A n \in others :
                   InTexts[n] \notin {<<"#">>, <<"X">>, <<"M", "A", "X">>}
             /\ Terminal)
            => /\ scan.pc = "returned"
               /\ LexerTexts = SubSeq(InTexts, 1, k - 1) \o <<<<NL>>>>
                                   \o RefMaxExpansion
                                   \o SubSeq(InTexts, after, Len(InTexts))

\* C24: for the lines #ifdef NOPE, a line of ordinary tokens and #endif,
\* NOPE being no key of the macro table, directives_do_process returns
\* with no token left in the list but the newlines of the lines.
C24_InactiveRegionDropped ==
    (/\ InTexts = JoinLines(<<LineIfdefNope, LineOrdinary, LineEndif>>)
     /\ <<"N", "O", "P", "E">> \notin DOMAIN macros_dict
     /\ Terminal)
    => /\ scan.pc = "returned"
       /\ \A n \in 1..Len(LexerTexts) : LexerTexts[n] = <<NL>>

\* The scan is at the # of a directive line whose name is one of kws
AtDirectiveNamed(kws) ==
    /\ AtHash
    /\ LexerTexts[scan.i + 1] = <<"#">>
    /\ RefFirstOnLine(LexerTexts, scan.i + 1)
    /\ \E n \in 1..Len(LexerTexts) :
          RefNextNonSpace(LexerTexts, scan.i + 1, n) /\ LexerTexts[n] \in kws

\* The directives that open a conditional
RefOpening == {<<"i", "f">>, <<"i", "f", "d", "e", "f">>,
               <<"i", "f", "n", "d", "e", "f">>}

\* C25: the dispatch of #if, #ifdef or #ifndef pushes a frame on the stack
\* of conditionals, the dispatch of #endif pops the frame of its opening
\* directive, and no other step changes the stack, so that it is empty
\* after a well-formed input; an #endif met with the stack empty leaves it
\* empty and the scan goes on.
C25_ConditionalStack ==
    [][IF AtDirectiveNamed(RefOpening)
       THEN Len(scan'.cond_queue) = Len(scan.cond_queue) + 1
       ELSE IF AtDirectiveNamed({<<"e", "n", "d", "i", "f">>})
       THEN IF scan.cond_queue = <<>>
            THEN scan'.cond_queue = <<>> /\ scan'.pc = "while"
            ELSE Len(scan'.cond_queue) = Len(scan.cond_queue) - 1
       ELSE scan'.cond_queue = scan.cond_queue]_vars

\* The index of the first token of t after k whose text is c
RefFirstAfter(t, k, c) ==
    CHOOSE n \in (k + 1)..Len(t) :
        t[n] = <<c>> /\ \A m \in (k + 1)..(n - 1) : t[m] # <<c>>

\* The tokens between the parentheses of the directive whose # is at k
RefParamTokens(t, k) ==
    LET open == RefFirstAfter(t, k, "(")
        close == RefFirstAfter(t, open, ")")
    IN  SubSeq(t, open + 1, close - 1)

\* The name of the macro that the function-like #define at k defines
RefMacroName(t, k) == t[RefFirstAfter(t, k, "(") - 1]

\* The token texts ps without the spaces
RefNoSpaces(ps) == SelectSeq(ps, LAMBDA v : v # <<SP>>)

\* q is ident (,ident)*
RefIdentList(q) ==
    /\ Len(q) % 2 = 1
    /\ \A n \in 1..Len(q) :
          IF n % 2 = 1 THEN RefIdentifier(q[n]) ELSE q[n] = <<",">>

\* The parameter list ps ends in `...`: three adjacent full stops, only
\* spaces after them
RefEndsInDots(ps) ==
    \E n \in 1..(Len(ps) - 2) :
        /\ ps[n] = <<".">> /\ ps[n + 1] = <<".">> /\ ps[n + 2] = <<".">>
        /\ \A m \in (n + 3)..Len(ps) : ps[m] = <<SP>>

\* ps is ident (,ident)* (,...)? or ... alone, spaces around the items
RefValidParams(ps) ==
    LET q == RefNoSpaces(ps)
    IN  \/ RefIdentList(q)
        \/ /\ RefEndsInDots(ps)
           /\ \/ Len(q) = 3
              \/ /\ Len(q) > 4
                 /\ q[Len(q) - 3] = <<",">>
                 /\ RefIdentList(SubSeq(q, 1, Len(q) - 4))

\* The scan is at the # of a function-like #define
AtFunctionLikeDefine ==
    /\ AtDirectiveNamed({<<"d", "e", "f", "i", "n", "e">>})
    /\ \E o \in (scan.i + 2)..Len(LexerTexts) :
          /\ LexerTexts[o] = <<"(">>
          /\ RefIdentifier(LexerTexts[o - 1])
          /\ \E c \in (o + 1)..Len(LexerTexts) :
                /\ LexerTexts[c] = <<")">>
                /\ \A m \in (scan.i + 2)..c : LexerTexts[m] # <<NL>>

\* C26: the dispatch of a function-like #define records the macro and goes
\* on when the tokens between its parentheses are ident (,ident)* (,...)?
\* or ... alone, and leaves the macro table as it was for any other
\* parameter list.
C26_ParameterListChecked ==
    [][AtFunctionLikeDefine =>
          IF RefValidParams(RefParamTokens(LexerTexts, scan.i + 1))
          THEN /\ scan'.pc = "while"
               /\ RefMacroName(LexerTexts, scan.i + 1) \in DOMAIN macros_dict'
          ELSE macros_dict' = macros_dict]_vars

---------------------------------------------------------------------------
(* Claims on comments, newlines and positions *)

\* The input is made of comments only: every character is in a comment or
\* is the newline that ends a line comment, a quote is among them, and
\* the last comment is closed
OnlyCommentsWithQuotes ==
    /\ \A i \in 1..Len(SrcChars) :
          \/ RefClass[i] \in {"L", "B"}
          \/ SrcChars[i] = NL /\ i > 1 /\ RefClass[i - 1] = "L"
    /\ \E i \in 1..Len(SrcChars) : SrcChars[i] = QUOTE
    /\ RefClass[Len(SrcChars) + 1] = "N"

\* C27: a double quote inside a comment opens no string literal: after an
\* input made of closed comments only, quotes in them, phase 1, phase 3a
\* and the tokenizer are out of their in-string state and there is no
\* token.
C27_QuoteInCommentOpensNoString ==
    AfterTokenize /\ OnlyCommentsWithQuotes =>
        /\ ~ph1.in_string
        /\ ~ph3.in_string
        /\ ~tok.in_string
        /\ tok.out = <<>>

\* The number of newlines in the characters t
RefNewlines(t) == Cardinality({i \in 1..Len(t) : t[i] = NL})

\* The number of maximal runs of consecutive newlines in t
RefNewlineRuns(t) ==
    Cardinality({i \in 1..Len(t) : t[i] = NL /\ (i = 1 \/ t[i - 1] # NL)})

\* C28 as stated: the output of phase 1 has at most as many newlines as
\* the input has maximal runs of consecutive newlines.
C28_NewlinesCollapsed ==
    AfterPhase1 => RefNewlines(Chars(ph1.out)) <= RefNewlineRuns(SrcChars)

\* The input has no double quote and no // or /*: no string literal and no
\* comment
NoLiteralNoComment ==
    /\ \A i \in 1..Len(SrcChars) : SrcChars[i] # QUOTE
    /\ \A i \in 1..(Len(SrcChars) - 1) :
          ~(SrcChars[i] = SLASH /\ SrcChars[i + 1] \in {SLASH, STAR})

\* C28, amended: for an input with no string literal and no comment, the
\* output of phase 1 has at most as many newlines as the input has maximal
\* runs of consecutive newlines.
C28_NewlinesCollapsedOutside ==
    AfterPhase1 /\ NoLiteralNoComment =>
        RefNewlines(Chars(ph1.out)) <= RefNewlineRuns(SrcChars)

\* Phase 1 has dropped a newline of a run of an input with no literal and
\* no comment
C28_Witness ==
    /\ AfterPhase1
    /\ NoLiteralNoComment
    /\ \E i \in 1..(Len(SrcChars) - 1) : SrcChars[i] = NL /\ SrcChars[i + 1] = NL
    /\ RefNewlines(Chars(ph1.out)) < RefNewlines(SrcChars)

\* The input is x<comment>y: a character x that is no white space, no
\* quote and no slash, one block comment, and a character y that is no
\* white space; phases 1 and 2 hand it to the comment stripper as it is.
IsXCommentY ==
    LET t == SrcChars
        n == Len(t)
    IN  /\ n >= 6
        /\ ~IsSpace(t[1]) /\ t[1] \notin {NL, QUOTE, SLASH}
        /\ ~IsSpace(t[n]) /\ t[n] # NL
        /\ t[2] = SLASH /\ t[3] = STAR
        /\ t[n - 2] = STAR /\ t[n - 1] = SLASH
        /\ \A i \in 4..(n - 3) : ~(t[i] = STAR /\ t[i + 1] = SLASH)
        /\ Chars(ph2.out) = t

\* C29 as stated: the comment stripper puts nothing in the place of a
\* comment, the output for x<comment>y is xy.
C29_CommentReplacedByNothing ==
    AfterPhase3a /\ IsXCommentY =>
        Chars(ph3.out) = <<SrcChars[1], SrcChars[Len(SrcChars)]>>

\* C29, amended: the comment stripper puts one space in the place of a
\* block comment, the output for x<comment>y is x, a space, y.
C29_CommentReplacedBySpace ==
    AfterPhase3a /\ IsXCommentY =>
        Chars(ph3.out) = <<SrcChars[1], SP, SrcChars[Len(SrcChars)]>>

\* The comment stripper has run on an input x<comment>y
C29_Witness ==
    /\ AfterPhase3a
    /\ IsXCommentY
    /\ Len(ph3.out) = 3

\* The index in the decoder's output of the character at the position pos,
\* 0 when the decoder gave that position to no character
RefIndexOf(pos) ==
    IF \E i \in 1..Len(Decoded) : SrcPos(i) = pos
    THEN CHOOSE i \in 1..Len(Decoded) : SrcPos(i) = pos
    ELSE 0

\* The element e of a queue stands at the position of the input character
\* it is; when it is another character than the input has there, it is a
\* replacement: the space for white space or for a comment, or the
\* character of a trigraph.
RefKeepsPosition(e) ==
    LET i == RefIndexOf(e[2])
    IN  /\ i > 0
        /\ e[1] # Decoded[i][1] =>
              \/ e[1] = SP
              \/ /\ trigraphs_enabled
                 /\ Decoded[i][1] = QM
                 /\ \E c \in trigraph_keys : e[1] = trigraph_subs(c)

\* C30: every character that phases 1, 2 and 3a hand on unchanged carries
\* the line and column the decoder gave it, and the characters keep the
\* order of the input.
C30_PositionsKept ==
    AfterPhase3a =>
        /\ \A k \in 1..Len(ph3.out) : RefKeepsPosition(ph3.out[k])
        /\ \A k, l \in 1..Len(ph3.out) :
              k < l => RefIndexOf(ph3.out[k][2]) < RefIndexOf(ph3.out[l][2])

\* A character was dropped and a later one, unchanged, is in the output
\* of phase 3a
C30_Witness ==
    /\ AfterPhase3a
    /\ \E k \in 1..Len(ph3.out) : \E i \in 1..Len(Decoded) :
          /\ i > k
          /\ ph3.out[k] = Src(i)

---------------------------------------------------------------------------
(* Claims on the source decoder *)

\* What the generator has yielded so far
Yielded == decoder.out

\* The number of newlines yielded before the k-th yielded character
RefNewlinesBefore(k) == Cardinality({j \in 1..(k - 1) : Yielded[j][1] = NL})

\* C31: a yielded character carries line 1 plus the number of newlines
\* yielded before it, so the newline carries the line it ends and the line
\* goes up by one on the first character after it; the character yielded
\* after a newline carries column 1.
C31_LineNumbers ==
    \A k \in 1..Len(Yielded) :
        /\ Yielded[k][2] = 1 + RefNewlinesBefore(k)
        /\ (k > 1 /\ Yielded[k - 1][1] = NL) => Yielded[k][3] = 1

\* The generator is exhausted and has yielded a character on line 3, first
\* of its line, after more than one character on line 1
C31_Witness ==
    /\ decoder.pc = "returned"
    /\ \E k \in 3..Len(Yielded) :
          /\ Yielded[k] = <<"a", 3, 1>>
          /\ Yielded[k - 1][1] = NL
    /\ Yielded[2][2] = 1

\* The number of characters c in the text t
RECURSIVE RefCount(_, _)
RefCount(t, c) ==
    IF t = <<>> THEN 0
    ELSE (IF t[1] = c THEN 1 ELSE 0) + RefCount(Tail(t), c)

\* C32: U+FFFD is never yielded, each one met is skipped and counted, and
\* the generator returns the number of U+FFFD characters of its input; it
\* has no other end than this return.
C32_UndecodableSkipped ==
    /\ \A k \in 1..Len(Yielded) : Yielded[k][1] # FFFD
    /\ decoder._file_errs + RefCount(decoder.rest, FFFD) = RefCount(text, FFFD)
    /\ Len(Yielded) + decoder._file_errs + Len(decoder.rest)
          = Len(DecoderInput(decoder.funct, text))
    /\ decoder.pc = "returned" =>
          /\ decoder.ret = RefCount(text, FFFD)
          /\ decoder.rest = <<>>

\* The generator has returned after skipping two characters, one of them
\* between two yielded characters
C32_Witness ==
    /\ decoder.pc = "returned"
    /\ decoder.ret = 2
    /\ \E k \in 2..(Len(text) - 1) :
          /\ text[k] = FFFD
          /\ text[k - 1] = "a"
          /\ text[k + 1] = "a"
    /\ Len(Yielded) = Len(text) - 2

\* The index of the yielded character that starts the line of the k-th one
RefLineStart(k) ==
    IF \E j \in 1..(k - 1) : Yielded[j][1] = NL
    THEN 1 + CHOOSE j \in 1..(k - 1) :
                /\ Yielded[j][1] = NL
                /\ \A l \in (j + 1)..(k - 1) : Yielded[l][1] # NL
    ELSE 1

\* C40: on every line, the first included, the k-th yielded character of
\* the line carries column k; the first character yielded is at line 1,
\* column 1.
C40_ColumnsFromOne ==
    \A k \in 1..Len(Yielded) : Yielded[k][3] = k - RefLineStart(k) + 1

---------------------------------------------------------------------------
(* Claims on the scan loop of directives_do_process *)

\* C33: directives_do_process comes to an end on every token list: its
\* scan loop is left, by the return or by an exception, wherever a # token
\* stands and whatever stands before it.
C33_ScanTerminates == <>Terminal

\* In the token texts t the # at k is the first token of its line and the
\* first token after it that is no space is on the same line and is not
\* the name of a directive
RefUnknownDirectiveAt(t, k) ==
    /\ k <= Len(t)
    /\ t[k] = <<"#">>
    /\ k = 1 \/ t[k - 1] = <<NL>>
    /\ \E n \in 1..Len(t) :
          /\ RefNextNonSpace(t, k, n)
          /\ t[n] # <<NL>>
          /\ t[n] \notin RefDirectiveKeywords

\* The tokens of the line that starts at k in the token texts t
RefLineTokens(t, k) == SubSeq(t, k, RefLineEnd(t, k) - 1)

\* The scan is at the # of a line whose keyword is no known directive
AtUnknownDirective == AtHash /\ RefUnknownDirectiveAt(LexerTexts, scan.i + 1)

\* Every line of the list that starts with # and an unknown keyword is,
\* after the step, still a whole line of the list, no further down
UnknownLinesKept ==
    \A k \in 1..Len(lexer_lst) :
        RefUnknownDirectiveAt(LexerTexts, k) =>
            \E k2 \in 1..k :
                RefLineAt(LexerTexts', k2, RefLineTokens(LexerTexts, k))

\* C34: at the # of a line whose keyword is no known directive, the step
\* of directives_do_process leaves the token list and the macro table as
\* they are and goes on to the token after the #; no step of the scan
\* removes a token of such a line.
C34_UnknownDirectiveLeft ==
    [][/\ AtUnknownDirective => OrdinaryStep
       /\ UnknownLinesKept]_vars

\* The scan has gone past the # of a line with an unknown keyword, the
\* second line of a list it has removed nothing of, and stands on the
\* token after the #
C34_Witness ==
    /\ scan.pc = "while"
    /\ scan.i > 1
    /\ RefUnknownDirectiveAt(LexerTexts, scan.i)
    /\ lexer_lst = lexer_lst_in

---------------------------------------------------------------------------
(* Claims on the trigraph of the backslash *)

\* The text t with each ??/ replaced by a backslash, from left to right
RECURSIVE RefBackslashed(_)
RefBackslashed(t) ==
    IF Len(t) >= 3 /\ t[1] = QM /\ t[2] = QM /\ t[3] = SLASH
    THEN <<BSL>> \o RefBackslashed(SubSeq(t, 4, Len(t)))
    ELSE IF t = <<>> THEN <<>>
    ELSE <<t[1]>> \o RefBackslashed(Tail(t))

\* C35: with trigraphs enabled, the text phase 1 puts out for an input is
\* the text it puts out for the same input with each ??/ written as a
\* backslash.
C35_TrigraphIsBackslash ==
    (AfterPhase1 /\ trigraphs_enabled) =>
        Chars(ph1.out) =
            Chars(do_translation_phase_1(RefBackslashed(text), TRUE).out)

---------------------------------------------------------------------------
(* Claims on the end of a block comment *)

\* The whole input is read and its end lies inside a block comment: the
\* last /* outside string literals and comments has no */ after its two
\* characters
RefEndsInBlockComment == RefClass[Len(SrcChars) + 1] = "B"

\* C36: at the end of the input, phase 1's comment tracking and phase 3a
\* are inside a block comment exactly when the last comment opener of the
\* input has no */ after it, whatever comments came before: /*/ closes no
\* comment.
C36_BlockCommentEnd ==
    /\ AfterPhase1 => (ph1.in_comment_c_style <=> RefEndsInBlockComment)
    /\ AfterPhase3a => (ph3.in_comment_c_style <=> RefEndsInBlockComment)

---------------------------------------------------------------------------
(* Claims on the white space of the output of phase 3a *)

\* The k-th element of the output of phase 3a stands at the position of an
\* input character that is outside the string literals of the input
OutsideStringLiterals(k) == RefClass[RefIndexOf(ph3.out[k][2])] # "S"

\* The k-th element of the output of phase 3a is a space or a newline
IsBlankOut(k) == ph3.out[k][1] \in {SP, NL}

\* C37: outside the string literals of the input, the output of phases 1,
\* 2 and 3a has no two adjacent characters that are spaces or newlines (no
\* two spaces, no two newlines, no space next to a newline), and it does
\* not begin with a space or a newline.
C37_WhitespaceNormalForm ==
    AfterPhase3a =>
        /\ \A k \in 1..(Len(ph3.out) - 1) :
              (OutsideStringLiterals(k) /\ OutsideStringLiterals(k + 1)) =>
                  ~(IsBlankOut(k) /\ IsBlankOut(k + 1))
        /\ (Len(ph3.out) > 0 /\ OutsideStringLiterals(1)) => ~IsBlankOut(1)

---------------------------------------------------------------------------
(* Claims on the phase argument of run_translation *)

\* C38: whatever its phase argument, run_translation comes to an end: it
\* returns or it raises, no task being left to wait for ever on a queue
\* that nothing is put on.
C38_PhaseNeverBlocks == <>(pc \in {"returned", "raised"})

---------------------------------------------------------------------------
(* Claims on the state of a Cppp object *)

\* C39: a call that builds or runs a Cppp object changes nothing of what
\* is read through another object: its predefined macros, its token list,
\* its error counts and its system path stay as they were.
C39_InstanceStateScoped ==
    [][\A k \in 1..Len(instances) :
          k # cppp_call'.self => Observed(k)' = Observed(k)]_vars

=============================================================================
